---- MODULE Spec2Model ----
(***************************************************************************)
(* State-machine model of the Join task board (Angular, Firestore).        *)
(*                                                                         *)
(* BoardComponent (src/src/app/pages/board/board.component.ts) is modelled *)
(* with its object graph: task objects are shared by reference between     *)
(* allTasks and the four column arrays, and the nested arrays of a task    *)
(* (subtasks, completedSubtasks, assignedTo) live in a heap, so that the   *)
(* difference between a shallow copy ({...task}) and a deep copy           *)
(* (JSON.parse(JSON.stringify(task))) is part of the model.                *)
(* Every await of a remote write splits a handler in two actions: the part *)
(* up to the call (which records the write in `pending`) and its           *)
(* continuation, which runs when the write resolves or rejects.            *)
(*                                                                         *)
(* AddTaskComponent (src/unnamed/part_001) is modelled with its form, its  *)
(* texts being sequences of characters so that trim() is part of the model. *)
(*                                                                         *)
(* SummaryComponent exists in two revisions in the sources                 *)
(* (src/unnamed/part_005 and src/src/app/pages/summary/                    *)
(* summary.component.ts); both loadDashboardData variants are modelled,    *)
(* with the two reads each of them awaits. AddTaskComponent.onSubmit exists *)
(* in two revisions too (src/unnamed/part_001 and src/src/app/pages/       *)
(* add-task/add-task.component.ts).                                        *)
(*                                                                         *)
(* The tasks collection and the contacts collection of the store hold      *)
(* whole documents: every write merges its payload into its document, an   *)
(* insert adds a document, and every read takes the collection as it is    *)
(* when the read settles. Texts are sequences of characters throughout.    *)
(*                                                                         *)
(* AuthService (src/unnamed/part_008), the guards of the routes, the login *)
(* of LoginComponent, the registration of RegisterComponent and the logout *)
(* of HeaderComponent are modelled over one record: the provider's current *)
(* user, the manual-login flag in the service and in sessionStorage, the   *)
(* admin flag in localStorage, the active route and the messages of the    *)
(* login and register components created last. router.navigate runs the    *)
(* guard of the route and leaves a navigation in flight; the route is      *)
(* activated, and its lazily loaded component created, in a later step.    *)
(*                                                                         *)
(* ContactsComponent (src/src/app/pages/contacts/contacts.component.ts) is *)
(* modelled with its list, its selection and its two forms.                *)
(***************************************************************************)
EXTENDS Integers, Sequences, FiniteSets, TLC

\* ------------------------------------------------------------------ bounds

\* Largest number of documents in the remote tasks collection.
MaxTasks == 2

\* Number of remote writes that may be in flight at the same time.
MaxPending == 2

\* Largest number of subtasks the edit form is driven to.
MaxSubtasks == 1

\* Longest text typed into a field of the add-task form.
MaxText == 2

\* Longest completedSubtasks array a stored document starts with.
MaxCompleted == 2

\* Largest number of subtasks entered into the add-task form.
MaxFormSubtasks == 2

\* Largest number of contacts in the list of the contacts page.
MaxContacts == 3

\* Number of registrations whose redirect to login has not run yet.
MaxRegistrations == 1

\* ------------------------------------------------------------- value sets

TaskIds == 1..MaxTasks

Statuses == <<"todo", "inprogress", "awaitfeedback", "done">>

StatusSet == {Statuses[i] : i \in 1..4}

\* A field that is missing from a remote document (JS undefined).
Undefined == "undefined"

Priorities == {"urgent", "medium", "low"}

\* A document id the tasks collection has no document for.
Absent == [absent |-> TRUE]

\* An optional array: <<>> when the field is missing, <<arr>> when present.
None == <<>>

Some(v) == <<v>>

\* null (no task object)
Null == [null |-> TRUE]

\* {}: an object without any field, as { ...null } gives.
EmptyObject == [empty |-> TRUE]

\* o && o.id
HasId(o) == o # Null /\ o # EmptyObject

\* Array heap: addresses; 0 is "no array" (undefined field).
MaxArrays == 3 * (MaxTasks + 2)

ArrAddrs == 1..MaxArrays

\* Error messages of the board
ErrLoad == "Fehler beim Laden der Daten"

ErrMove == "Fehler beim Verschieben der Aufgabe"

ErrSubtask == "Fehler beim Aktualisieren der Subtask"

ErrDelete == "Fehler beim Löschen der Aufgabe"

ErrSave == "Fehler beim Speichern der Aufgabe"

\* The text addSubtaskToEdit pushes: 'Neue Subtask'.
NewSubtaskText == <<"N", "e", "u", "e", " ", "S", "u", "b", "t", "a", "s", "k">>

\* ------------------------------------------------------------------ state

VARIABLES
  remote,          \* Firestore collection 'tasks': id -> document
  allTasks,        \* BoardComponent.allTasks: references to task objects
  tasks,           \* the task objects allTasks refers to, by id (Null: none)
  arrays,          \* heap of the nested arrays of the task objects
  columns,         \* todoTasks, inProgressTasks, awaitFeedbackTasks, doneTasks
  allContacts,     \* BoardComponent.allContacts (contact ids)
  isLoading,       \* BoardComponent.isLoading
  reads,           \* the two getDocs of loadData: not called, pending or settled
  error,           \* BoardComponent.error
  drag,            \* the drag in progress: source container and index
  selectedTask,    \* BoardComponent.selectedTask
  showTaskDetail,  \* BoardComponent.showTaskDetail
  isEditMode,      \* BoardComponent.isEditMode
  editTask,        \* BoardComponent.editTask
  pending,         \* remote writes in flight, with what their continuation holds
  summary,         \* SummaryComponent: the two reads of loadDashboardData and stats
  form,            \* AddTaskComponent: the form fields, error and success
  uncaught,        \* an exception has left a handler of the board uncaught
  auth,            \* Firebase Auth, AuthService, the two storages and the router
  contactsPage     \* ContactsComponent: the list, the selection and the two forms

vars == <<remote, allTasks, tasks, arrays, columns, allContacts, isLoading, reads, error,
          drag, selectedTask, showTaskDetail, isEditMode, editTask, pending, summary, form, uncaught, auth, contactsPage>>

\* The route the router outlet shows: the handlers of a page run while the
\* component of its route is shown.
AtRoute(route) == auth.url = route

boardVars == <<allTasks, tasks, arrays, columns, allContacts, isLoading, reads, error,
               drag, selectedTask, showTaskDetail, isEditMode, editTask, uncaught>>

\* ------------------------------------------------------- remote documents

\* A document of the tasks collection as AddTaskComponent.onSubmit writes it;
\* status and completedSubtasks are missing in documents of the older form.
\* The texts are sequences of characters, the one subtask is 's'.
TaskDoc(status, deleted, priority, completed) ==
  [ title |-> <<"t">>, description |-> <<>>, dueDate |-> <<"d">>,
    priority |-> priority, assignedTo |-> <<>>, category |-> <<"c">>,
    subtasks |-> << <<"s">> >>, status |-> status, createdAt |-> "2024-01-01",
    completedSubtasks |-> completed, deleted |-> deleted ]

\* ------------------------------------------------------------ array heap

EmptyHeap == [a \in ArrAddrs |-> <<>>]

\* The array references held by a task object (0: the field is undefined).
RefsOf(o) == IF ~HasId(o) THEN <<>> ELSE <<o.subtasks, o.completedSubtasks, o.assignedTo>>

RECURSIVE TaskRefs(_, _)
TaskRefs(t, i) == IF i > MaxTasks THEN <<>> ELSE RefsOf(t[i]) \o TaskRefs(t, i + 1)

\* All references reachable from the component, in a fixed order.
RootRefs(t, s, e) == TaskRefs(t, 1) \o RefsOf(s) \o RefsOf(e)

\* Number of array addresses in use (the heap is kept compact: 1..UsedArrays).
UsedArrays(t, s, e) ==
  LET r == RootRefs(t, s, e)
      S == {r[i] : i \in DOMAIN r}
  IN  IF S = {} THEN 0 ELSE CHOOSE m \in S : \A x \in S : x <= m

\* An object with its array references renumbered by f.
Rebase(o, f) ==
  IF ~HasId(o) THEN o
  ELSE [o EXCEPT !.subtasks = f[@], !.completedSubtasks = f[@], !.assignedTo = f[@]]

\* The distinct references of r other than 0, in the order they first occur.
RECURSIVE Distinct(_, _, _)
Distinct(r, i, acc) ==
  IF i > Len(r) THEN acc
  ELSE Distinct(r, i + 1,
                IF r[i] = 0 \/ \E k \in DOMAIN acc : acc[k] = r[i] THEN acc
                ELSE Append(acc, r[i]))

\* Garbage collection: unreachable arrays are dropped and the reachable ones are
\* renumbered in the order of RootRefs, which changes no sharing.
Normalize(t, s, e, h) ==
  LET order == Distinct(RootRefs(t, s, e), 1, <<>>)
      new   == [a \in 0..MaxArrays |->
                  IF \E k \in DOMAIN order : order[k] = a
                  THEN CHOOSE k \in DOMAIN order : order[k] = a
                  ELSE 0]
  IN  [ tasks    |-> [i \in TaskIds |-> Rebase(t[i], new)],
        selected |-> Rebase(s, new),
        edit     |-> Rebase(e, new),
        arrays   |-> [n \in ArrAddrs |-> IF n <= Len(order) THEN h[order[n]] ELSE <<>>] ]

\* The object graph after a handler step.
Commit(t, s, e, h) ==
  LET n == Normalize(t, s, e, h)
  IN  /\ tasks' = n.tasks
      /\ selectedTask' = n.selected
      /\ editTask' = n.edit
      /\ arrays' = n.arrays

\* ------------------------------------------------------------- exceptions

\* A catch block that assigns nothing to this.error.
NoMessage == "no message"

\* A try block with its catch block, or a .catch on a promise: the message
\* the block assigns to this.error, and whether the block throws again.
Frame(message, rethrows) == [message |-> message, rethrows |-> rethrows]

\* An exception (a rejected await, or an error thrown by a statement) passes
\* through the frames around the point it is thrown at, the innermost first:
\* every frame it reaches runs its block; a block that throws again hands it
\* to the next frame, any other block ends it; with no frame left it leaves
\* the handler, as a rejected promise nothing handles. err is this.error
\* when it is thrown.
RECURSIVE Unwind(_, _)
Unwind(frames, err) ==
  IF frames = <<>> THEN [error |-> err, escapes |-> TRUE]
  ELSE LET block == Head(frames)
           e     == IF block.message = NoMessage THEN err ELSE block.message
       IN  IF block.rethrows THEN Unwind(Tail(frames), e)
           ELSE [error |-> e, escapes |-> FALSE]

\* this.error after a step in which an exception is thrown inside `frames`
\* (thrown), or none is.
ErrorAfter(thrown, frames) == IF thrown THEN Unwind(frames, error).error ELSE error

\* The exception leaves the handler.
Escapes(thrown, frames) == thrown /\ Unwind(frames, error).escapes

\* ---------------------------------------------------------------- loading

\* Fault variant of LoadedTask: the status is taken as stored, without the
\* 'todo' default.
LoadedTask_noDefault(i, d) ==
  [ id |-> i, title |-> d.title, description |-> d.description, dueDate |-> d.dueDate,
    priority |-> d.priority, category |-> d.category, createdAt |-> d.createdAt,
    deleted |-> d.deleted,
    status |-> d.status,
    subtasks |-> 3 * (i - 1) + 1,
    completedSubtasks |-> IF d.completedSubtasks = None THEN 0 ELSE 3 * (i - 1) + 2,
    assignedTo |-> 3 * (i - 1) + 3 ]

\* Fault variant of LoadedTask: every task is given the status 'todo'.
LoadedTask_allTodo(i, d) ==
  [ id |-> i, title |-> d.title, description |-> d.description, dueDate |-> d.dueDate,
    priority |-> d.priority, category |-> d.category, createdAt |-> d.createdAt,
    deleted |-> d.deleted,
    status |-> "todo",
    subtasks |-> 3 * (i - 1) + 1,
    completedSubtasks |-> IF d.completedSubtasks = None THEN 0 ELSE 3 * (i - 1) + 2,
    assignedTo |-> 3 * (i - 1) + 3 ]

\* loadTasks, the mapping of one snapshot document: a new object with new arrays,
\* id from the document, status defaulted to 'todo' when missing (|| 'todo').
\* The arrays of document i are placed at 3(i-1)+1..3(i-1)+3.
LoadedTask(i, d) ==
  [ id |-> i, title |-> d.title, description |-> d.description, dueDate |-> d.dueDate,
    priority |-> d.priority, category |-> d.category, createdAt |-> d.createdAt,
    deleted |-> d.deleted,
    status |-> IF d.status = Undefined THEN "todo" ELSE d.status,
    subtasks |-> 3 * (i - 1) + 1,
    completedSubtasks |-> IF d.completedSubtasks = None THEN 0 ELSE 3 * (i - 1) + 2,
    assignedTo |-> 3 * (i - 1) + 3 ]

LoadedArrays(r) ==
  [a \in ArrAddrs |->
     IF a > 3 * MaxTasks THEN <<>>
     ELSE LET i == ((a - 1) \div 3) + 1
              k == ((a - 1) % 3) + 1
          IN  CASE r[i] = Absent -> <<>>
                [] k = 1 -> r[i].subtasks
                [] k = 2 -> IF r[i].completedSubtasks = None THEN <<>>
                            ELSE r[i].completedSubtasks[1]
                [] OTHER -> r[i].assignedTo]

RECURSIVE IdsFrom(_)
IdsFrom(i) == IF i > MaxTasks THEN <<>> ELSE <<i>> \o IdsFrom(i + 1)

\* snapshot.docs of a read of the tasks collection r: the ids of its
\* documents, in the order of the ids.
Docs(r) == SelectSeq(IdsFrom(1), LAMBDA i : r[i] # Absent)

\* loadTasks line 259: the documents that pass filter(task => !task.deleted),
\* in snapshot order.
NotDeleted(r) == SelectSeq(Docs(r), LAMBDA i : ~r[i].deleted)

\* Fault variant of sortTasksIntoColumns: the filter of the done column
\* compares with a misspelt status and so selects nothing.
sortTasksIntoColumns_typo(all, t) ==
  [s \in StatusSet |->
     IF s = "done" THEN <<>> ELSE SelectSeq(all, LAMBDA i : t[i].status = s)]

\* Fault variant of sortTasksIntoColumns: each column holds its tasks in the
\* order opposite to that of allTasks.
sortTasksIntoColumns_reversed(all, t) ==
  [s \in StatusSet |->
     LET f == SelectSeq(all, LAMBDA i : t[i].status = s)
     IN  [k \in 1..Len(f) |-> f[Len(f) + 1 - k]]]

\* sortTasksIntoColumns: four filters of allTasks by status.
sortTasksIntoColumns(all, t) ==
  [s \in StatusSet |-> SelectSeq(all, LAMBDA i : t[i].status = s)]

NoTasks == [i \in TaskIds |-> Null]

\* The two reads of loadData before ngOnInit has called it, and once it has.
NotCalled == [contacts |-> "none", tasks |-> "none"]

BothPending == [contacts |-> "pending", tasks |-> "pending"]

\* A read that has settled, by its outcome.
Outcome(ok) == IF ok THEN "resolved" ELSE "rejected"

\* ngOnInit -> loadData up to its await: isLoading and error are set and
\* loadContacts and loadTasks are called, each of which calls getDocs and
\* awaits it. ngOnInit is the only caller.
loadData ==
  /\ AtRoute("board")
  /\ reads = NotCalled
  /\ isLoading' = TRUE
  /\ error' = ""
  /\ reads' = BothPending
  /\ UNCHANGED <<remote, allTasks, tasks, arrays, columns, allContacts, drag,
                 selectedTask, showTaskDetail, isEditMode, editTask, pending, summary,
                 form, uncaught, auth, contactsPage>>

\* Fault variant of loadData_resumed: loadContacts and loadTasks do not catch
\* their own rejection, so the first rejected read rejects Promise.all at once:
\* sortTasksIntoColumns is skipped, the catch of loadData sets the error message
\* and its finally block clears isLoading. r holds the reads after the step.
loadData_failFast(r, all, t) ==
  IF ~isLoading
  THEN UNCHANGED <<columns, isLoading, error>>
  ELSE IF "rejected" \in {r.contacts, r.tasks}
  THEN /\ columns' = columns
       /\ isLoading' = FALSE
       /\ error' = ErrLoad
  ELSE IF "pending" \in {r.contacts, r.tasks}
  THEN UNCHANGED <<columns, isLoading, error>>
  ELSE /\ columns' = sortTasksIntoColumns(all, t)
       /\ isLoading' = FALSE
       /\ error' = error

\* loadData after await Promise.all: it resumes in the step in which the later
\* of the two reads settles (the promises of loadContacts and loadTasks resolve
\* in microtasks of that step, whatever the outcome of the read, as both catch
\* their own rejection), sorts the columns from what allTasks then holds and
\* clears isLoading. r holds the reads, `all` and t the tasks after the step.
loadData_resumed(r, all, t) ==
  IF "pending" \in {r.contacts, r.tasks}
  THEN UNCHANGED <<columns, isLoading, error>>
  ELSE /\ columns' = sortTasksIntoColumns(all, t)
       /\ isLoading' = FALSE
       /\ error' = error

\* loadTasks after its await: the snapshot, which holds the tasks collection as
\* it is when the read settles (documents inserted by the add-task page
\* included), is mapped, filtered and assigned; a rejected read ends in the
\* catch block of loadTasks (lines 260-262), which logs it, so that the catch
\* block of loadData around Promise.all (lines 218-220) is not reached.
loadTasks_settled(ok) ==
  /\ reads.tasks = "pending"
  /\ reads' = [reads EXCEPT !.tasks = Outcome(ok)]
  /\ LET all == IF ok THEN NotDeleted(remote) ELSE allTasks
         t   == IF ok
                THEN [i \in TaskIds |->
                        IF remote[i] = Absent \/ remote[i].deleted THEN Null
                        ELSE LoadedTask(i, remote[i])]
                ELSE tasks
         h   == IF ok THEN LoadedArrays(remote) ELSE arrays
     IN  /\ allTasks' = all
         /\ Commit(t, selectedTask, editTask, h)
         /\ loadData_resumed(reads', all, t)
  /\ uncaught' = (uncaught \/ Escapes(~ok, <<Frame(NoMessage, FALSE), Frame(ErrLoad, FALSE)>>))
  /\ UNCHANGED <<remote, allContacts, drag, showTaskDetail, isEditMode, pending, summary,
                 form, auth, contactsPage>>

\* BoardComponent.loadContacts after its await: the contacts of the snapshot,
\* which holds the contacts collection as it is when the read settles, are
\* assigned; a rejected read ends in the catch block of loadContacts (lines
\* 239-241), which logs it.
loadContacts_settled(ok) ==
  /\ reads.contacts = "pending"
  /\ reads' = [reads EXCEPT !.contacts = Outcome(ok)]
  /\ allContacts' = IF ok THEN contactsPage.collection ELSE allContacts
  /\ loadData_resumed(reads', allTasks, tasks)
  /\ uncaught' = (uncaught \/ Escapes(~ok, <<Frame(NoMessage, FALSE), Frame(ErrLoad, FALSE)>>))
  /\ UNCHANGED <<remote, allTasks, tasks, arrays, drag, selectedTask, showTaskDetail,
                 isEditMode, editTask, pending, summary, form, auth, contactsPage>>

\* ------------------------------------------------------ summary dashboard

\* snapshot.docs.map(doc => ({ id: doc.id, ...doc.data() })) over a read of the
\* tasks collection r.
MappedDocs(r) == [k \in DOMAIN Docs(r) |-> [id |-> Docs(r)[k]] @@ r[Docs(r)[k]]]

\* .filter(task => !task.deleted) of src/unnamed/part_005, line 274.
withoutDeleted(list) == SelectSeq(list, LAMBDA task : ~task.deleted)

\* The stats field as its initialiser leaves it (nextDeadline, a date the
\* model does not compute, is left out).
ZeroStats ==
  [ totalTasks |-> 0, todoTasks |-> 0, inProgressTasks |-> 0, awaitFeedbackTasks |-> 0,
    doneTasks |-> 0, urgentTasks |-> 0, totalContacts |-> 0 ]

\* A SummaryComponent as its field initialisers leave it; reads are the two
\* getDocs of loadDashboardData and snapshots what those that have resolved
\* have returned.
SummaryConstructed ==
  [ isLoading |-> TRUE, reads |-> NotCalled,
    snapshots |-> [tasks |-> <<>>, contacts |-> <<>>],
    tasks |-> <<>>, contacts |-> <<>>, stats |-> ZeroStats ]

\* calculateStats over this.tasks and this.contacts.
calculateStats(list, contacts) ==
  [ totalTasks         |-> Len(list),
    todoTasks          |-> Len(SelectSeq(list, LAMBDA t : t.status = "todo")),
    inProgressTasks    |-> Len(SelectSeq(list, LAMBDA t : t.status = "inprogress")),
    awaitFeedbackTasks |-> Len(SelectSeq(list, LAMBDA t : t.status = "awaitfeedback")),
    doneTasks          |-> Len(SelectSeq(list, LAMBDA t : t.status = "done")),
    urgentTasks        |-> Len(SelectSeq(list, LAMBDA t : t.priority = "urgent")),
    totalContacts      |-> Len(contacts) ]

\* SummaryComponent.ngOnInit -> loadDashboardData up to its await: isLoading
\* is set and the two getDocs are called (both branches of ngOnInit call it).
SummaryComponent_ngOnInit ==
  /\ AtRoute("summary")
  /\ summary.reads = NotCalled
  /\ summary' = [summary EXCEPT !.isLoading = TRUE, !.reads = BothPending]
  /\ UNCHANGED <<remote, pending, form, auth, contactsPage>>
  /\ UNCHANGED boardVars

\* The component once one of the two reads has settled. A read that resolves
\* returns its collection as it is then. Promise.all rejects with the first
\* read that rejects: the catch block logs and the finally block clears
\* isLoading, and what the other read returns is dropped. When the later of
\* the two resolves, loadDashboardData resumes: tasks and contacts are
\* assigned, calculateStats runs and isLoading is cleared. `filtered` tells
\* the revision: src/unnamed/part_005 filters the tasks by !task.deleted,
\* src/src/app/pages/summary/summary.component.ts does not.
loadDashboardData_resumed(read, ok, filtered) ==
  LET kept(list) == IF filtered THEN withoutDeleted(list) ELSE list
      s == [summary EXCEPT
              !.reads[read] = Outcome(ok),
              !.snapshots[read] = IF ~ok THEN @
                                  ELSE IF read = "tasks" THEN MappedDocs(remote)
                                  ELSE contactsPage.collection]
  IN  IF "rejected" \in {summary.reads.tasks, summary.reads.contacts} THEN s
      ELSE IF ~ok THEN [s EXCEPT !.isLoading = FALSE]
      ELSE IF "pending" \in {s.reads.tasks, s.reads.contacts} THEN s
      ELSE [s EXCEPT !.tasks = kept(s.snapshots.tasks),
                     !.contacts = s.snapshots.contacts,
                     !.stats = calculateStats(kept(s.snapshots.tasks), s.snapshots.contacts),
                     !.isLoading = FALSE]

\* SummaryComponent.loadDashboardData after its await, src/unnamed/part_005:
\* the documents are mapped and filtered by !task.deleted.
loadDashboardData_settled(read, ok) ==
  /\ summary.reads[read] = "pending"
  /\ summary' = loadDashboardData_resumed(read, ok, TRUE)
  /\ UNCHANGED <<remote, pending, form, auth, contactsPage>>
  /\ UNCHANGED boardVars

\* SummaryComponent.loadDashboardData after its await, src/src/app/pages/
\* summary/summary.component.ts: every document of the snapshot is kept.
loadDashboardData_unfiltered_settled(read, ok) ==
  /\ summary.reads[read] = "pending"
  /\ summary' = loadDashboardData_resumed(read, ok, FALSE)
  /\ UNCHANGED <<remote, pending, form, auth, contactsPage>>
  /\ UNCHANGED boardVars

\* ------------------------------------------------------- add-task form

\* The characters typed into the form: a blank and a letter.
Chars == {" ", "a"}

\* Texts are sequences of characters, so that trim() has something to remove.
Texts == UNION {[1..n -> Chars] : n \in 0..MaxText}

RECURSIVE trimStart(_)
trimStart(t) == IF t # <<>> /\ Head(t) = " " THEN trimStart(Tail(t)) ELSE t

RECURSIVE trimEnd(_)
trimEnd(t) ==
  IF t # <<>> /\ t[Len(t)] = " " THEN trimEnd(SubSeq(t, 1, Len(t) - 1)) ELSE t

\* Fault variant of trim: the text as typed.
trim_none(t) == t

\* String.prototype.trim
trim(t) == trimEnd(trimStart(t))

ErrTitle == "Title is required."

ErrDueDate == "Due date is required."

ErrCategory == "Category is required."

ErrAdd == "Error saving task. Please try again."

TaskCreated == "Task created successfully!"

\* The two messages of src/src/app/pages/add-task/add-task.component.ts.
ErrAdd_older == "Error saving task."

TaskCreated_older == "Task created!"

\* editSubtaskIndex when no subtask is being edited (null).
NoIndex == -1

\* An array element that was never assigned (undefined).
Hole == <<"undefined">>

\* The form as the field initialisers of AddTaskComponent leave it; timers
\* counts the redirects to the board this component has scheduled by
\* setTimeout, and detached those scheduled by components the outlet has
\* replaced since.
EmptyForm ==
  [ title |-> <<>>, description |-> <<>>, dueDate |-> <<>>, priority |-> "medium",
    assignedTo |-> <<>>, category |-> <<>>, subtasks |-> <<>>,
    newSubtask |-> <<>>, editSubtaskIndex |-> NoIndex, editSubtaskValue |-> <<>>,
    error |-> "", success |-> "", timers |-> 0, detached |-> 0 ]

\* ----------------------------------------------------------- contacts page

\* E-mail addresses typed into the two contact forms, as character sequences:
\* one address, the same in another case behind a blank, another address,
\* and a text that is no address.
EmailInputs ==
  { <<"a", "@", "b", ".", "c">>, <<" ", "A", "@", "b", ".", "c">>,
    <<"x", "@", "b", ".", "c">>, <<"a", "@", "b", "c">> }

\* Names typed into the two contact forms (a form starts with none).
NameInputs == { <<"a">> }

\* String.prototype.toLowerCase on the characters of EmailInputs.
toLowerCase(t) == [k \in DOMAIN t |-> IF t[k] = "A" THEN "a" ELSE t[k]]

\* /^[^\s@]+@[^\s@]+\.[^\s@]+$/.test(t)
emailRegexTest(t) ==
  \E p, q \in DOMAIN t :
    /\ 1 < p /\ p + 1 < q /\ q < Len(t)
    /\ t[p] = "@" /\ t[q] = "."
    /\ \A k \in DOMAIN t \ {p} : t[k] # "@" /\ t[k] # " "

ErrContactRequired == "Name und E-Mail sind Pflichtfelder"

ErrContactEmail == "Bitte geben Sie eine gültige E-Mail-Adresse ein"

ErrContactDuplicate == "Ein Kontakt mit dieser E-Mail-Adresse existiert bereits"

ErrContactSave == "Fehler beim Speichern des Kontakts"

ErrEditDuplicate == "Ein anderer Kontakt mit dieser E-Mail-Adresse existiert bereits"

ErrEditSave == "Fehler beim Speichern der Änderungen"

\* The contacts collection of the store when the application is opened.
StoredContacts ==
  << [id |-> 1, name |-> <<"a">>, email |-> <<"a", "@", "b", ".", "c">>] >>

\* ContactsComponent as its field initialisers leave it. `collection` is the
\* contacts collection of the store and `added` the number of documents addDoc
\* has created in it (the store gives every new document a new id); `read` is
\* the getDocs of loadContacts: not called, pending or settled.
ContactsConstructed ==
  [ collection |-> StoredContacts,
    added |-> 0,
    read |-> "none",
    contacts |-> <<>>, selectedContact |-> Null,
    showAddContactOverlay |-> FALSE, showEditContactOverlay |-> FALSE,
    addName |-> <<>>, addEmail |-> <<>>, addError |-> "",
    editName |-> <<>>, editEmail |-> <<>>, editError |-> "" ]

\* ------------------------------------------------------- authentication

\* auth.currentUser when nobody is signed in.
NoUser == "null"

\* The address loginAsGuest signs in with.
guestEmail == "gast@join-demo.com"

\* The accounts of the provider, by e-mail address.
Users == {guestEmail, "guest@join-demo.com", "user@join-demo.com"}

\* app.routes.ts: the routes with canActivate: [authGuard] ...
ProtectedRoutes == {"summary", "add-task", "board", "contacts"}

\* ... and those with canActivate: [publicGuard].
PublicRoutes == {"privacy-policy", "legal-notice", "login", "register"}

\* A path that matches neither ('' and '**' redirect to login).
OtherPath == "help"

ErrLoginFields == "Bitte füllen Sie alle Pflichtfelder aus."

\* The messages of LoginComponent.handleLoginError.
ErrUserNotFound == "Kein Benutzer mit dieser E-Mail-Adresse gefunden."

ErrWrongPassword == "Falsches Passwort. Bitte versuchen Sie es erneut."

ErrInvalidCredential == "E-Mail oder Passwort ist falsch. Bitte überprüfen Sie Ihre Angaben und versuchen Sie es erneut."

ErrInvalidEmail == "Ungültige E-Mail-Adresse."

ErrUserDisabled == "Dieser Benutzeraccount wurde deaktiviert."

ErrTooManyRequests == "Zu viele Anmeldeversuche. Bitte versuchen Sie es später erneut."

ErrLogin == "Anmeldung fehlgeschlagen. Bitte überprüfen Sie Ihre E-Mail und Ihr Passwort und versuchen Sie es erneut."

\* The error codes handleLoginError has a case for, and one it has none for.
LoginErrorCodes ==
  { "auth/user-not-found", "auth/wrong-password", "auth/invalid-credential",
    "auth/invalid-login-credentials", "auth/invalid-email", "auth/user-disabled",
    "auth/too-many-requests", "auth/network-request-failed" }

\* The messages of the errors without a code: one that holds 'invalid
\* credential' in some capitalisation, one that does not, and none.
LoginErrorMessages == {"Invalid Credentials", "Network error", ""}

\* The error argument of a sign-in that has not rejected.
NoError == [code |-> Undefined, message |-> ""]

\* What signInWithEmailAndPassword rejects with.
LoginErrors ==
  {[code |-> c, message |-> "Firebase: Error"] : c \in LoginErrorCodes}
    \cup {[code |-> Undefined, message |-> m] : m \in LoginErrorMessages}

\* error.message && error.message.toLowerCase().includes('invalid credential')
\* over the messages of the model.
includesInvalidCredential(message) == message = "Invalid Credentials"

\* LoginComponent.handleLoginError: the message for the error's code, and for an
\* unknown code the message by the error's text.
handleLoginError(err) ==
  CASE err.code = "auth/user-not-found" -> ErrUserNotFound
    [] err.code = "auth/wrong-password" -> ErrWrongPassword
    [] err.code \in {"auth/invalid-credential", "auth/invalid-login-credentials"}
         -> ErrInvalidCredential
    [] err.code = "auth/invalid-email" -> ErrInvalidEmail
    [] err.code = "auth/user-disabled" -> ErrUserDisabled
    [] err.code = "auth/too-many-requests" -> ErrTooManyRequests
    [] OTHER -> IF includesInvalidCredential(err.message) THEN ErrInvalidCredential
                ELSE ErrLogin

\* The messages of RegisterComponent.register.
ErrPasswordsDiffer == "Passwords do not match"

ErrEmailInUse == "Diese E-Mail ist bereits registriert."

ErrRegister == "Registrierung fehlgeschlagen."

Registered == "Registration successful! You can now log in."

\* The address a new account is registered with.
RegisterEmails == {"new@join-demo.com"}

\* What createUserWithEmailAndPassword rejects with.
RegisterErrorCodes == {"auth/email-already-in-use", "auth/invalid-email", "auth/weak-password"}

\* The catch block of RegisterComponent.register.
registerError(code) ==
  IF code = "auth/email-already-in-use" THEN ErrEmailInUse
  ELSE IF code = "auth/invalid-email" THEN ErrInvalidEmail
  ELSE ErrRegister

ErrGuestLogin == "Demo-Login fehlgeschlagen. Bitte versuchen Sie es später erneut."

\* No navigation of the router is in flight.
NoNavigation == [target |-> "none", awaitedBy |-> "none"]

\* The application opened in a new browser session with nobody signed in:
\* manualLoginSubject false, no join_manual_login in sessionStorage, no
\* join_admin_mode in localStorage, '' redirected to login. errorMessage is the
\* field of the LoginComponent created last; register holds the two messages
\* of the RegisterComponent created last and the timers it has started.
\* url is the route the outlet shows ("none" while the application starts),
\* address the address of the browser, which a reload requests again, and
\* navigation the navigation in flight with the call that awaits it.
SignedOut ==
  [ currentUser |-> NoUser, manualLoginSubject |-> FALSE, join_manual_login |-> FALSE,
    join_admin_mode |-> FALSE, url |-> "login", address |-> "login",
    navigation |-> NoNavigation, errorMessage |-> "",
    register |-> [errorMessage |-> "", successMessage |-> "", timers |-> 0] ]

\* AuthService.setManualLogin
setManualLogin(a) == [a EXCEPT !.manualLoginSubject = TRUE, !.join_manual_login = TRUE]

\* AuthService.hasManualLogin: sessionStorage.getItem('join_manual_login') === 'true'
hasManualLogin(a) == a.join_manual_login

\* Fault variant of canAccessProtectedRoute: the provider's user is enough.
canAccessProtectedRoute_firebaseOnly(a) == a.currentUser # NoUser

\* AuthService.canAccessProtectedRoute
canAccessProtectedRoute(a) == a.currentUser # NoUser /\ hasManualLogin(a)

\* AuthService.isGuestUser: currentUser?.email === 'guest@join-demo.com'
isGuestUser(a) == a.currentUser = "guest@join-demo.com"

\* AuthService.isAdmin: localStorage.getItem('join_admin_mode') === 'true'
isAdmin(a) == a.join_admin_mode

\* AuthService.canModifyData
canModifyData(a) == ~isGuestUser(a) \/ isAdmin(a)

\* authGuard: true, or false after router.navigate(['/login']).
authGuard(a) == canAccessProtectedRoute(a)

\* The route a navigation to `path` ends on: the guard of the route decides
\* (authGuard sends the router to login when it refuses), and a path that
\* matches no route is redirected to login.
Activated(a, path) ==
  IF path \in ProtectedRoutes THEN (IF authGuard(a) THEN path ELSE "login")
  ELSE IF path \in PublicRoutes THEN path
  ELSE "login"

\* router.navigate([path]), called by `caller`, which awaits it ("none": the
\* promise is not awaited, or the caller is gone). The guard runs with the
\* state the call finds; the navigation takes the place of one in flight; a
\* navigation that ends on the route shown is skipped. The route is
\* activated later, in Router_activated.
Navigated(a, path, caller) ==
  LET target == Activated(a, path)
  IN  [a EXCEPT !.navigation = IF target = a.url THEN NoNavigation
                               ELSE [target |-> target, awaitedBy |-> caller]]

\* The outlet creates the component of `route` when `target` is activated: a
\* LoginComponent has errorMessage '' (login.component.ts 45), a
\* RegisterComponent has both messages '' (register.component.ts 22-24).
Created(a, target, route) == target = route /\ a.url # route

\* The router state once route `target` is activated.
RouteTo(a, target) ==
  [a EXCEPT !.url = target,
            !.address = target,
            !.navigation = NoNavigation,
            !.errorMessage = IF Created(a, target, "login") THEN "" ELSE @,
            !.register.errorMessage = IF Created(a, target, "register") THEN "" ELSE @,
            !.register.successMessage = IF Created(a, target, "register") THEN "" ELSE @]

\* The route whose component has made the call.
CallerRoute(call) ==
  IF call.kind \in {"login", "loginAsGuest"} THEN "login"
  ELSE IF call.kind = "register" THEN "register"
  ELSE IF call.kind \in {"drop", "move", "toggle", "delete", "save"} THEN "board"
  ELSE IF call.kind \in {"add", "addOlder"} THEN "add-task"
  ELSE IF call.kind \in {"addContact", "saveContact", "deleteContact"} THEN "contacts"
  ELSE "none"

\* The calls in flight once route `target` is activated: a call awaited by a
\* component that has been replaced by a new one settles for the old
\* component, whose fields nothing shows any more.
Detached(p, a, target) ==
  [k \in DOMAIN p |->
     IF Created(a, target, CallerRoute(p[k]))
     THEN [p[k] EXCEPT !.orphan = TRUE]
     ELSE p[k]]

\* ------------------------------------------------------------------- init

NoDrag == [none |-> TRUE]

\* A user who has signed in through LoginComponent.login and gone to `route`.
SignedInAt(route) ==
  [setManualLogin([SignedOut EXCEPT !.currentUser = "user@join-demo.com"])
     EXCEPT !.url = route, !.address = route]

\* The application on `route` with the contacts page as given; on login
\* nobody is signed in.
InitAt(remotes, route, page) ==
  /\ remote \in remotes
  /\ allTasks = <<>>
  /\ tasks = NoTasks
  /\ arrays = EmptyHeap
  /\ columns = [s \in StatusSet |-> <<>>]
  /\ allContacts = <<>>
  /\ isLoading = TRUE
  /\ reads = NotCalled
  /\ error = ""
  /\ drag = NoDrag
  /\ selectedTask = Null
  /\ showTaskDetail = FALSE
  /\ isEditMode = FALSE
  /\ editTask = Null
  /\ pending = <<>>
  /\ summary = SummaryConstructed
  /\ form = EmptyForm
  /\ uncaught = FALSE
  /\ auth = IF route = "login" THEN SignedOut ELSE SignedInAt(route)
  /\ contactsPage = page

\* The application on `route`, the component of the route constructed and its
\* ngOnInit not yet run.
InitWith(remotes, route) == InitAt(remotes, route, ContactsConstructed)

\* ----------------------------------------------------------- router outlet

\* The fields of a BoardComponent as its initialisers leave them, with the
\* reads r of its loadData.
BoardConstructed(r) ==
  /\ allTasks' = <<>>
  /\ tasks' = NoTasks
  /\ arrays' = EmptyHeap
  /\ columns' = [s \in StatusSet |-> <<>>]
  /\ allContacts' = <<>>
  /\ isLoading' = TRUE
  /\ reads' = r
  /\ error' = ""
  /\ drag' = NoDrag
  /\ selectedTask' = Null
  /\ showTaskDetail' = FALSE
  /\ isEditMode' = FALSE
  /\ editTask' = Null

\* A ContactsComponent as its initialisers leave it, with the read r of its
\* loadContacts; the collection of the store is what it was.
ContactsCreated(c, r) ==
  [ContactsConstructed EXCEPT !.collection = c.collection, !.added = c.added,
                              !.read = r]

\* The components of the four pages once route `target` is activated. The
\* outlet creates the component of the route and runs its ngOnInit: a
\* BoardComponent calls loadData (board.component.ts 169-171), a
\* ContactsComponent calls loadContacts (contacts.component.ts 213-215), a
\* SummaryComponent calls loadDashboardData (summary.component.ts 92-109), an
\* AddTaskComponent has the empty form. The variables of a page hold the
\* fields of the component created last; the reads of a component that has
\* been replaced settle into fields nothing shows, and its timers still run.
Outlet(a, target) ==
  /\ IF Created(a, target, "board")
     THEN BoardConstructed(BothPending)
     ELSE UNCHANGED <<allTasks, tasks, arrays, columns, allContacts, isLoading, reads,
                      error, drag, selectedTask, showTaskDetail, isEditMode, editTask>>
  /\ form' = IF Created(a, target, "add-task")
             THEN [EmptyForm EXCEPT !.detached = form.detached + form.timers]
             ELSE form
  /\ contactsPage' = IF Created(a, target, "contacts")
                     THEN ContactsCreated(contactsPage, "pending")
                     ELSE contactsPage
  /\ summary' = IF Created(a, target, "summary")
                THEN [SummaryConstructed EXCEPT !.reads = BothPending]
                ELSE summary
  /\ UNCHANGED <<remote, uncaught>>

\* The page is loaded again: every component and every timer of the old page
\* is gone; the outlet shows nothing until the first navigation of the new
\* page is activated.
Reloaded ==
  /\ BoardConstructed(NotCalled)
  /\ form' = EmptyForm
  /\ contactsPage' = ContactsCreated(contactsPage, "none")
  /\ summary' = SummaryConstructed
  /\ UNCHANGED <<remote, uncaught>>

\* ------------------------------------------------------------ remote store

\* updateDoc: the fields of the payload are merged into the document; d holds
\* every field a payload of the application names, completedSubtasks as an
\* optional array.
ApplyUpdate(d, p) ==
  [f \in DOMAIN d |->
     IF f \notin DOMAIN p THEN d[f]
     ELSE IF f = "completedSubtasks" THEN Some(p[f])
     ELSE p[f]]

\* A write leaves `pending` when it settles.
RemoveAt(seq, i0) == SubSeq(seq, 1, i0) \o SubSeq(seq, i0 + 2, Len(seq))

InsertAt(seq, i0, x) == SubSeq(seq, 1, i0) \o <<x>> \o SubSeq(seq, i0 + 1, Len(seq))

Settled(n) == RemoveAt(pending, n - 1)

\* The tasks collection once the updateDoc of `call` has resolved.
Written(call) == [remote EXCEPT ![call.id] = ApplyUpdate(@, call.payload)]

Resolved(n) == Written(pending[n])

\* Fault variant of Stored: the new document is marked deleted, as a document
\* the board has deleted is.
Stored_deleted(payload) ==
  [ title |-> payload.title, description |-> payload.description,
    dueDate |-> payload.dueDate, priority |-> payload.priority,
    assignedTo |-> payload.assignedTo, category |-> payload.category,
    subtasks |-> payload.subtasks, createdAt |-> payload.createdAt,
    status |-> IF "status" \in DOMAIN payload THEN payload.status ELSE Undefined,
    completedSubtasks |-> IF "completedSubtasks" \in DOMAIN payload
                          THEN Some(payload.completedSubtasks) ELSE None,
    deleted |-> TRUE ]

\* The document the store holds for what addDoc was given: a field the
\* payload does not name is missing (status, completedSubtasks) or reads as
\* false (deleted).
Stored(payload) ==
  [ title |-> payload.title, description |-> payload.description,
    dueDate |-> payload.dueDate, priority |-> payload.priority,
    assignedTo |-> payload.assignedTo, category |-> payload.category,
    subtasks |-> payload.subtasks, createdAt |-> payload.createdAt,
    status |-> IF "status" \in DOMAIN payload THEN payload.status ELSE Undefined,
    completedSubtasks |-> IF "completedSubtasks" \in DOMAIN payload
                          THEN Some(payload.completedSubtasks) ELSE None,
    deleted |-> FALSE ]

\* addDoc: the collection has a new document, under the first id that is free.
Inserted(r, payload) ==
  LET id == CHOOSE i \in TaskIds : r[i] = Absent /\ \A j \in 1..(i - 1) : r[j] # Absent
  IN  [r EXCEPT ![id] = Stored(payload)]

\* No user gesture reaches the board while it loads or while a card is dragged.
Idle == ~isLoading /\ drag = NoDrag

CanIssue == Len(pending) < MaxPending

\* ------------------------------------------------------------ drag and drop

ColumnContainers == <<"todo-list", "inprogress-list", "awaitfeedback-list", "done-list">>

\* A drop list that is none of the four columns.
OtherContainer == "other-list"

\* getStatusFromContainer: the switch over container.id ("null": no status).
getStatusFromContainer(containerId) ==
  CASE containerId = "todo-list" -> "todo"
    [] containerId = "inprogress-list" -> "inprogress"
    [] containerId = "awaitfeedback-list" -> "awaitfeedback"
    [] containerId = "done-list" -> "done"
    [] OTHER -> "null"

\* The column a drop list shows (the template binds the array of the column to
\* the list with the column's id: todo-list to todoTasks, and so on).
BoundColumn(containerId) ==
  Statuses[CHOOSE c \in 1..4 : ColumnContainers[c] = containerId]

\* The array a drop list is bound to (container.data).
ContainerData(containerId) == columns[BoundColumn(containerId)]

Min(a, b) == IF a < b THEN a ELSE b

Max(a, b) == IF a < b THEN b ELSE a

clamp(value, max) == Max(0, Min(max, value))

\* Fault variant of moveItemInArray: the item is cut out and not put back.
moveItemInArray_dropped(array, fromIndex, toIndex) ==
  LET from == clamp(fromIndex, Len(array) - 1)
      to   == clamp(toIndex, Len(array) - 1)
  IN  IF from = to THEN array ELSE RemoveAt(array, from)

\* moveItemInArray of @angular/cdk/drag-drop: both indices clamped to the array,
\* the item shifted from one to the other.
moveItemInArray(array, fromIndex, toIndex) ==
  LET from == clamp(fromIndex, Len(array) - 1)
      to   == clamp(toIndex, Len(array) - 1)
  IN  IF from = to THEN array
      ELSE InsertAt(RemoveAt(array, from), to, array[from + 1])

\* Fault variant of transferArrayItem: the item always goes to the front of the
\* target array.
transferArrayItem_atStart(currentArray, targetArray, currentIndex, targetIndex) ==
  LET from == clamp(currentIndex, Len(currentArray) - 1)
  IN  IF Len(currentArray) = 0 THEN <<currentArray, targetArray>>
      ELSE <<RemoveAt(currentArray, from), <<currentArray[from + 1]>> \o targetArray>>

\* Fault variant of transferArrayItem: the item is copied to the target array
\* and stays in the source array.
transferArrayItem_copied(currentArray, targetArray, currentIndex, targetIndex) ==
  LET from == clamp(currentIndex, Len(currentArray) - 1)
      to   == clamp(targetIndex, Len(targetArray))
  IN  IF Len(currentArray) = 0 THEN <<currentArray, targetArray>>
      ELSE <<currentArray, InsertAt(targetArray, to, currentArray[from + 1])>>

\* transferArrayItem of @angular/cdk/drag-drop: <<source array, target array>>.
transferArrayItem(currentArray, targetArray, currentIndex, targetIndex) ==
  LET from == clamp(currentIndex, Len(currentArray) - 1)
      to   == clamp(targetIndex, Len(targetArray))
  IN  IF Len(currentArray) = 0 THEN <<currentArray, targetArray>>
      ELSE <<RemoveAt(currentArray, from), InsertAt(targetArray, to, currentArray[from + 1])>>

\* Fault variant of updateTaskStatus: the payload carries the id beside the
\* status.
updateTaskStatus_withId(taskId, newStatus) ==
  [id |-> taskId, payload |-> [status |-> newStatus, id |-> taskId]]

\* The write updateTaskStatus issues: updateDoc(taskDoc, { status: newStatus }).
updateTaskStatus(taskId, newStatus) == [id |-> taskId, payload |-> [status |-> newStatus]]

\* onDragStarted: the drag-and-drop library remembers the source list and the
\* index of the card (event.previousContainer, event.previousIndex). The
\* handler has no condition of its own; a card is dragged once the board has
\* loaded and while no other card is.
onDragStarted(containerId, index) ==
  /\ AtRoute("board")
  /\ Idle /\ CanIssue
  /\ index < Len(ContainerData(containerId))
  /\ drag' = [container |-> containerId, index |-> index]
  /\ UNCHANGED <<remote, allTasks, tasks, arrays, columns, allContacts, isLoading, reads, error,
                  selectedTask, showTaskDetail, isEditMode, editTask, pending, summary, form, uncaught, auth, contactsPage>>

\* Fault variant of onTaskDrop: on a drop on another column the write is issued
\* and the arrays and the status are left for the time it has settled.
onTaskDrop_awaiting(containerId, currentIndex) ==
  /\ AtRoute("board")
  /\ drag # NoDrag
  /\ LET previous  == BoundColumn(drag.container)
         data      == ContainerData(drag.container)
         newStatus == getStatusFromContainer(containerId)
     IN  IF drag.container = containerId
         THEN /\ columns' = [columns EXCEPT
                               ![previous] = moveItemInArray(@, drag.index, currentIndex)]
              /\ UNCHANGED <<tasks, pending>>
         ELSE IF drag.index >= Len(data) \/ newStatus = "null"
         THEN UNCHANGED <<columns, tasks, pending>>
         ELSE /\ UNCHANGED <<columns, tasks>>
              /\ pending' = Append(pending,
                                   [kind |-> "drop", orphan |-> FALSE]
                                   @@ updateTaskStatus(data[drag.index + 1], newStatus))
  /\ drag' = NoDrag
  /\ UNCHANGED <<remote, allTasks, arrays, allContacts, isLoading, reads, error,
                  selectedTask, showTaskDetail, isEditMode, editTask, summary, form, uncaught, auth, contactsPage>>

\* Fault variant of onTaskDrop: the status of the destination is not tested,
\* so a drop on a list that is no column takes the card out of its column,
\* gives it the status null and writes that.
onTaskDrop_unchecked(containerId, currentIndex) ==
  /\ AtRoute("board")
  /\ drag # NoDrag
  /\ LET previous  == BoundColumn(drag.container)
         data      == ContainerData(drag.container)
         newStatus == getStatusFromContainer(containerId)
         known     == newStatus # "null"
     IN  IF drag.container = containerId
         THEN /\ columns' = [columns EXCEPT
                               ![previous] = moveItemInArray(@, drag.index, currentIndex)]
              /\ UNCHANGED <<tasks, pending>>
         ELSE IF drag.index >= Len(data)
         THEN UNCHANGED <<columns, tasks, pending>>
         ELSE LET task   == data[drag.index + 1]
                  moved  == transferArrayItem(data,
                                              IF known THEN columns[BoundColumn(containerId)]
                                              ELSE <<>>,
                                              drag.index, currentIndex)
              IN  /\ columns' = IF known
                                THEN [columns EXCEPT ![previous] = moved[1],
                                                     ![BoundColumn(containerId)] = moved[2]]
                                ELSE [columns EXCEPT ![previous] = moved[1]]
                  /\ tasks' = [tasks EXCEPT ![task].status = newStatus]
                  /\ pending' = Append(pending,
                                       [kind |-> "drop", orphan |-> FALSE] @@ updateTaskStatus(task, newStatus))
  /\ drag' = NoDrag
  /\ UNCHANGED <<remote, allTasks, arrays, allContacts, isLoading, reads, error,
                  selectedTask, showTaskDetail, isEditMode, editTask, summary, form, uncaught, auth, contactsPage>>

\* Fault variant of onTaskDrop: the card is transferred before the status of
\* the destination is tested, so a drop on a list that is no column takes the
\* card out of its column and neither assigns nor writes a status.
onTaskDrop_spliceFirst(containerId, currentIndex) ==
  /\ AtRoute("board")
  /\ drag # NoDrag
  /\ LET previous  == BoundColumn(drag.container)
         data      == ContainerData(drag.container)
         newStatus == getStatusFromContainer(containerId)
         known     == newStatus # "null"
     IN  IF drag.container = containerId
         THEN /\ columns' = [columns EXCEPT
                               ![previous] = moveItemInArray(@, drag.index, currentIndex)]
              /\ UNCHANGED <<tasks, pending>>
         ELSE IF drag.index >= Len(data)
         THEN UNCHANGED <<columns, tasks, pending>>
         ELSE LET task   == data[drag.index + 1]
                  moved  == transferArrayItem(data,
                                              IF known THEN columns[BoundColumn(containerId)]
                                              ELSE <<>>,
                                              drag.index, currentIndex)
              IN  /\ columns' = IF known
                                THEN [columns EXCEPT ![previous] = moved[1],
                                                     ![BoundColumn(containerId)] = moved[2]]
                                ELSE [columns EXCEPT ![previous] = moved[1]]
                  /\ tasks' = IF known THEN [tasks EXCEPT ![task].status = newStatus]
                              ELSE tasks
                  /\ pending' = IF known
                                THEN Append(pending, [kind |-> "drop", orphan |-> FALSE]
                                                     @@ updateTaskStatus(task, newStatus))
                                ELSE pending
  /\ drag' = NoDrag
  /\ UNCHANGED <<remote, allTasks, arrays, allContacts, isLoading, reads, error,
                  selectedTask, showTaskDetail, isEditMode, editTask, summary, form, uncaught, auth, contactsPage>>

\* onTaskDrop for a drop on `containerId` at `currentIndex`, with onDragEnded.
\* A previousIndex that no longer is an index of the source array makes task
\* undefined: `task.id` (line 317) throws inside the try block of lines
\* 304-344, whose catch block (lines 345-349) logs and assigns no message.
onTaskDrop(containerId, currentIndex) ==
  /\ AtRoute("board")
  /\ drag # NoDrag
  /\ LET previous  == BoundColumn(drag.container)
         data      == ContainerData(drag.container)
         newStatus == getStatusFromContainer(containerId)
         thrown    == drag.container # containerId /\ drag.index >= Len(data)
         try       == <<Frame(NoMessage, FALSE)>>
     IN  /\ IF drag.container = containerId
            THEN /\ columns' = [columns EXCEPT
                                  ![previous] = moveItemInArray(@, drag.index, currentIndex)]
                 /\ UNCHANGED <<tasks, pending>>
            ELSE IF thrown \/ newStatus = "null"
            THEN UNCHANGED <<columns, tasks, pending>>
            ELSE LET task   == data[drag.index + 1]
                     target == BoundColumn(containerId)
                     moved  == transferArrayItem(data, columns[target],
                                                 drag.index, currentIndex)
                 IN  /\ columns' = [columns EXCEPT ![previous] = moved[1],
                                                    ![target] = moved[2]]
                     /\ tasks' = [tasks EXCEPT ![task].status = newStatus]
                     /\ pending' = Append(pending,
                                          [kind |-> "drop", orphan |-> FALSE] @@ updateTaskStatus(task, newStatus))
         /\ error' = ErrorAfter(thrown, try)
         /\ uncaught' = (uncaught \/ Escapes(thrown, try))
  /\ drag' = NoDrag
  /\ UNCHANGED <<remote, allTasks, arrays, allContacts, isLoading, reads,
                  selectedTask, showTaskDetail, isEditMode, editTask, summary, form, auth, contactsPage>>

\* Fault variant of onTaskDrop_settled: on failure the card is put back under
\* the status of its document.
onTaskDrop_settled_reverting(n, ok) ==
  /\ n \in DOMAIN pending /\ pending[n].kind = "drop" /\ ~pending[n].orphan
  /\ pending' = Settled(n)
  /\ remote' = IF ok THEN Resolved(n) ELSE remote
  /\ LET id == pending[n].id
         t  == IF ok \/ tasks[id] = Null THEN tasks
               ELSE [tasks EXCEPT ![id].status = remote[id].status]
         updateTaskStatus_catch == Frame(NoMessage, TRUE)
         onTaskDrop_catch       == Frame(ErrMove, FALSE)
         frames == <<updateTaskStatus_catch, onTaskDrop_catch>>
     IN  /\ tasks' = t
         /\ columns' = IF ok THEN columns ELSE sortTasksIntoColumns(allTasks, t)
         /\ error' = ErrorAfter(~ok, frames)
         /\ uncaught' = (uncaught \/ Escapes(~ok, frames))
  /\ UNCHANGED <<allTasks, arrays, allContacts, isLoading, reads,
                  drag, selectedTask, showTaskDetail, isEditMode, editTask, summary,
                  form, auth, contactsPage>>

\* Fault variant of onTaskDrop_settled: the promise of updateTaskStatus is left
\* without the .catch of lines 334-338, so a rejected write, which the catch
\* block of updateTaskStatus throws again, is handled nowhere.
onTaskDrop_settled_withoutCatch(n, ok) ==
  /\ n \in DOMAIN pending /\ pending[n].kind = "drop" /\ ~pending[n].orphan
  /\ pending' = Settled(n)
  /\ remote' = IF ok THEN Resolved(n) ELSE remote
  /\ LET updateTaskStatus_catch == Frame(NoMessage, TRUE)
         frames == <<updateTaskStatus_catch>>
     IN  /\ error' = ErrorAfter(~ok, frames)
         /\ uncaught' = (uncaught \/ Escapes(~ok, frames))
  /\ UNCHANGED <<allTasks, tasks, arrays, columns, allContacts, isLoading, reads,
                  drag, selectedTask, showTaskDetail, isEditMode, editTask, summary, form, auth, contactsPage>>

\* The status write of a drop settles. A rejected updateDoc is caught in
\* updateTaskStatus (lines 384-387), which logs it and throws it again; the
\* promise onTaskDrop holds is rejected and its .catch (lines 334-338) sets
\* the message. The try block of onTaskDrop has been left by then.
onTaskDrop_settled(n, ok) ==
  /\ n \in DOMAIN pending /\ pending[n].kind = "drop" /\ ~pending[n].orphan
  /\ pending' = Settled(n)
  /\ remote' = IF ok THEN Resolved(n) ELSE remote
  /\ LET updateTaskStatus_catch == Frame(NoMessage, TRUE)
         onTaskDrop_catch       == Frame(ErrMove, FALSE)
         frames == <<updateTaskStatus_catch, onTaskDrop_catch>>
     IN  /\ error' = ErrorAfter(~ok, frames)
         /\ uncaught' = (uncaught \/ Escapes(~ok, frames))
  /\ UNCHANGED <<allTasks, tasks, arrays, columns, allContacts, isLoading, reads,
                  drag, selectedTask, showTaskDetail, isEditMode, editTask, summary, form, auth, contactsPage>>

\* ------------------------------------------------------------- mobile move

\* Fault variant of moveTaskToStatus: the status is assigned and the columns
\* are sorted before the remote update is awaited.
moveTaskToStatus_optimistic(task, newStatus) ==
  /\ AtRoute("board")
  /\ Idle /\ ~showTaskDetail /\ CanIssue
  /\ \E s \in StatusSet : \E k \in DOMAIN columns[s] : columns[s][k] = task
  /\ tasks[task].status # newStatus
  /\ pending' = Append(pending, [kind |-> "move", orphan |-> FALSE, task |-> task]
                                 @@ updateTaskStatus(task, newStatus))
  /\ LET t == [tasks EXCEPT ![task].status = newStatus]
     IN  /\ tasks' = t
         /\ columns' = sortTasksIntoColumns(allTasks, t)
  /\ UNCHANGED <<remote, summary, form, auth, contactsPage>>
  /\ UNCHANGED <<allTasks, arrays, allContacts, isLoading, reads, error,
                  drag, selectedTask, showTaskDetail, isEditMode, editTask, uncaught>>

\* moveTaskViaMobile -> moveTaskToStatus up to its await; `task` is a card of the
\* board. The continuation keeps the task object it was called with.
moveTaskToStatus(task, newStatus) ==
  /\ AtRoute("board")
  /\ Idle /\ ~showTaskDetail /\ CanIssue
  /\ \E s \in StatusSet : \E k \in DOMAIN columns[s] : columns[s][k] = task
  /\ tasks[task].status # newStatus
  /\ pending' = Append(pending, [kind |-> "move", orphan |-> FALSE, task |-> task]
                                 @@ updateTaskStatus(task, newStatus))
  /\ UNCHANGED <<remote, summary, form, auth, contactsPage>>
  /\ UNCHANGED boardVars

\* moveTaskToStatus after its await: status assignment on the object it holds and
\* re-partition, or the catch block.
moveTaskToStatus_settled(n, ok) ==
  /\ n \in DOMAIN pending /\ pending[n].kind = "move" /\ ~pending[n].orphan
  /\ pending' = Settled(n)
  /\ remote' = IF ok THEN Resolved(n) ELSE remote
  /\ LET t == IF ok /\ pending[n].task # 0
              THEN [tasks EXCEPT ![pending[n].task].status = pending[n].payload.status]
              ELSE tasks
         updateTaskStatus_catch == Frame(NoMessage, TRUE)
         moveTaskToStatus_catch == Frame(ErrMove, FALSE)
         frames == <<updateTaskStatus_catch, moveTaskToStatus_catch>>
     IN  /\ tasks' = t
         /\ columns' = IF ok THEN sortTasksIntoColumns(allTasks, t) ELSE columns
         /\ error' = ErrorAfter(~ok, frames)
         /\ uncaught' = (uncaught \/ Escapes(~ok, frames))
  /\ UNCHANGED <<allTasks, arrays, allContacts, isLoading, reads,
                  drag, selectedTask, showTaskDetail, isEditMode, editTask, summary, form, auth, contactsPage>>

\* ------------------------------------------------------------- task detail

OnBoard(task) == \E s \in StatusSet : \E k \in DOMAIN columns[s] : columns[s][k] = task

\* Array.prototype.indexOf, 0-based; -1 when absent.
indexOf(array, x) ==
  IF \E k \in DOMAIN array : array[k] = x
  THEN (CHOOSE k \in DOMAIN array : array[k] = x /\ \A j \in 1..(k - 1) : array[j] # x) - 1
  ELSE -1

\* A continuation that holds task object `id` holds a dead object once allTasks
\* has another object (or none) in its place.
Orphan(p, id) ==
  [n \in DOMAIN p |->
     IF p[n].kind = "move" /\ p[n].task = id THEN [p[n] EXCEPT !.task = 0] ELSE p[n]]

\* openTaskDetail: selectedTask = { ...task }, a new object with the same arrays.
openTaskDetail(task) ==
  /\ AtRoute("board")
  /\ Idle /\ ~showTaskDetail
  /\ OnBoard(task)
  /\ Commit(tasks, tasks[task], editTask, arrays)
  /\ showTaskDetail' = TRUE
  /\ UNCHANGED <<remote, allTasks, columns, allContacts, isLoading, reads, error, drag,
                  isEditMode, pending, summary, form, uncaught, auth, contactsPage>>

\* closeTaskDetail
closeTaskDetail ==
  /\ AtRoute("board")
  /\ Idle /\ showTaskDetail
  /\ Commit(tasks, Null, Null, arrays)
  /\ showTaskDetail' = FALSE
  /\ isEditMode' = FALSE
  /\ UNCHANGED <<remote, allTasks, columns, allContacts, isLoading, reads, error, drag,
                  pending, summary, form, uncaught, auth, contactsPage>>

\* Fault variant of toggled: the text is pushed whether or not it is there.
toggled_alwaysPush(completed, subtaskText) == Append(completed, subtaskText)

\* toggleSubtask lines 678-686: the text is pushed when indexOf finds it
\* nowhere in completedSubtasks, and spliced out at its first index otherwise.
toggled(completed, subtaskText) ==
  LET completedIndex == indexOf(completed, subtaskText)
  IN  IF completedIndex = -1 THEN Append(completed, subtaskText)
      ELSE RemoveAt(completed, completedIndex)

\* toggleSubtask up to its await: completedSubtasks of selectedTask is created if
\* missing, then changed in place (push / splice), then written.
toggleSubtask(subtaskIndex) ==
  /\ AtRoute("board")
  /\ Idle /\ CanIssue
  /\ HasId(selectedTask)
  /\ subtaskIndex < Len(arrays[selectedTask.subtasks])
  /\ LET fresh == UsedArrays(tasks, selectedTask, editTask) + 1
         sel   == IF selectedTask.completedSubtasks = 0
                  THEN [selectedTask EXCEPT !.completedSubtasks = fresh]
                  ELSE selectedTask
         h0    == IF selectedTask.completedSubtasks = 0
                  THEN [arrays EXCEPT ![fresh] = <<>>]
                  ELSE arrays
         a     == sel.completedSubtasks
         subtaskText    == h0[sel.subtasks][subtaskIndex + 1]
         h1    == [h0 EXCEPT ![a] = toggled(@, subtaskText)]
     IN  /\ Commit(tasks, sel, editTask, h1)
         /\ pending' = Append(pending,
                              [kind |-> "toggle", orphan |-> FALSE, id |-> sel.id,
                               payload |-> [completedSubtasks |-> h1[a]]])
  /\ UNCHANGED <<remote, allTasks, columns, allContacts, isLoading, reads, error, drag,
                  showTaskDetail, isEditMode, summary, form, uncaught, auth, contactsPage>>

\* toggleSubtask after its await. this.selectedTask is read again, in the
\* callback of allTasks.find: when it is null by then and allTasks has an
\* element, `this.selectedTask!.id` throws. The await and the find stand in
\* the try block of lines 671-703, whose catch block sets the message.
toggleSubtask_settled(n, ok) ==
  /\ n \in DOMAIN pending /\ pending[n].kind = "toggle" /\ ~pending[n].orphan
  /\ pending' = Settled(n)
  /\ remote' = IF ok THEN Resolved(n) ELSE remote
  /\ LET thrown == ~ok \/ (selectedTask = Null /\ allTasks # <<>>)
         t == IF ~thrown /\ HasId(selectedTask) /\ tasks[selectedTask.id] # Null
              THEN [tasks EXCEPT ![selectedTask.id].completedSubtasks =
                                    selectedTask.completedSubtasks]
              ELSE tasks
         try == <<Frame(ErrSubtask, FALSE)>>
     IN  /\ error' = ErrorAfter(thrown, try)
         /\ Commit(t, selectedTask, editTask, arrays)
         /\ uncaught' = (uncaught \/ Escapes(thrown, try))
  /\ UNCHANGED <<allTasks, columns, allContacts, isLoading, reads, drag,
                  showTaskDetail, isEditMode, summary, form, auth, contactsPage>>

\* Fault variant of deleteTask: the answer to confirm() is not looked at.
deleteTask_unconfirmed(confirmed) ==
  /\ AtRoute("board")
  /\ Idle /\ CanIssue
  /\ HasId(selectedTask) /\ ~isEditMode
  /\ pending' = Append(pending, [kind |-> "delete", orphan |-> FALSE, id |-> selectedTask.id,
                                 payload |-> [deleted |-> TRUE]])
  /\ UNCHANGED <<remote, summary, form, auth, contactsPage>>
  /\ UNCHANGED boardVars

\* deleteTask(selectedTask) up to its await, with the answer to confirm().
deleteTask(confirmed) ==
  /\ AtRoute("board")
  /\ Idle /\ CanIssue
  /\ HasId(selectedTask) /\ ~isEditMode
  /\ pending' = IF confirmed
                THEN Append(pending, [kind |-> "delete", orphan |-> FALSE, id |-> selectedTask.id,
                                      payload |-> [deleted |-> TRUE]])
                ELSE pending
  /\ UNCHANGED <<remote, summary, form, auth, contactsPage>>
  /\ UNCHANGED boardVars

\* Fault variant of deleteTask_settled: the columns are not sorted again.
deleteTask_settled_unsorted(n, ok) ==
  /\ n \in DOMAIN pending /\ pending[n].kind = "delete" /\ ~pending[n].orphan
  /\ remote' = IF ok THEN Resolved(n) ELSE remote
  /\ error' = ErrorAfter(~ok, <<Frame(ErrDelete, FALSE)>>)
  /\ IF ok
     THEN /\ allTasks' = SelectSeq(allTasks, LAMBDA i : i # pending[n].id)
          /\ Commit(tasks, Null, Null, arrays)
          /\ showTaskDetail' = FALSE
          /\ isEditMode' = FALSE
          /\ pending' = Settled(n)
     ELSE /\ pending' = Settled(n)
          /\ UNCHANGED <<allTasks, tasks, selectedTask, editTask, arrays,
                          showTaskDetail, isEditMode>>
  /\ UNCHANGED <<columns, allContacts, isLoading, reads, drag, summary, form, auth, contactsPage>>
  /\ uncaught' = (uncaught \/ Escapes(~ok, <<Frame(ErrDelete, FALSE)>>))

\* deleteTask after its await: the task leaves allTasks, the columns are sorted
\* again and the detail view is closed; a rejected updateDoc ends in the catch
\* block of the try of lines 719-737, which sets the message.
deleteTask_settled(n, ok) ==
  /\ n \in DOMAIN pending /\ pending[n].kind = "delete" /\ ~pending[n].orphan
  /\ remote' = IF ok THEN Resolved(n) ELSE remote
  /\ error' = ErrorAfter(~ok, <<Frame(ErrDelete, FALSE)>>)
  /\ IF ok
     THEN LET id  == pending[n].id
              all == SelectSeq(allTasks, LAMBDA i : i # id)
              t   == [tasks EXCEPT ![id] = Null]
          IN  /\ allTasks' = all
              /\ columns' = sortTasksIntoColumns(all, t)
              /\ Commit(t, Null, Null, arrays)
              /\ showTaskDetail' = FALSE
              /\ isEditMode' = FALSE
              /\ pending' = Orphan(Settled(n), id)
     ELSE /\ pending' = Settled(n)
          /\ UNCHANGED <<allTasks, columns, tasks, selectedTask, editTask, arrays,
                          showTaskDetail, isEditMode>>
  /\ UNCHANGED <<allContacts, isLoading, reads, drag, summary, form, auth, contactsPage>>
  /\ uncaught' = (uncaught \/ Escapes(~ok, <<Frame(ErrDelete, FALSE)>>))

\* --------------------------------------------------------------- edit mode

\* Fault variant of DeepCopy: the copy shares the arrays of the original.
DeepCopy_shallow(task, h, used) == <<task, h>>

\* JSON.parse(JSON.stringify(task)): <<copy, heap>>, the copy holding new arrays
\* (at used+1, used+2, used+3) with the contents of the original's; a missing
\* completedSubtasks stays missing.
DeepCopy(task, h, used) ==
  LET copy == [task EXCEPT !.subtasks = used + 1,
                           !.completedSubtasks = IF @ = 0 THEN 0 ELSE used + 2,
                           !.assignedTo = used + 3]
      heap == [a \in ArrAddrs |->
                 CASE a = used + 1 -> h[task.subtasks]
                   [] a = used + 2 /\ task.completedSubtasks # 0 -> h[task.completedSubtasks]
                   [] a = used + 3 -> h[task.assignedTo]
                   [] OTHER -> h[a]]
  IN  <<copy, heap>>

\* startEditMode(selectedTask)
startEditMode ==
  /\ AtRoute("board")
  /\ Idle /\ showTaskDetail
  /\ selectedTask # Null /\ ~isEditMode
  /\ LET c == DeepCopy(selectedTask, arrays, UsedArrays(tasks, selectedTask, editTask))
     IN  Commit(tasks, selectedTask, c[1], c[2])
  /\ isEditMode' = TRUE
  /\ UNCHANGED <<remote, allTasks, columns, allContacts, isLoading, reads, error, drag,
                  showTaskDetail, pending, summary, form, uncaught, auth, contactsPage>>

\* cancelEditMode
cancelEditMode ==
  /\ AtRoute("board")
  /\ Idle /\ isEditMode
  /\ Commit(tasks, selectedTask, Null, arrays)
  /\ isEditMode' = FALSE
  /\ UNCHANGED <<remote, allTasks, columns, allContacts, isLoading, reads, error, drag,
                  showTaskDetail, pending, summary, form, uncaught, auth, contactsPage>>

\* What the edit form's inputs are set to (two-way binding on editTask).
FormInputs == [title |-> {<<>>, <<"r">>}, dueDate |-> {<<>>}, category |-> {<<>>}]

\* An input of the edit form writes its field of the buffer.
editFormInput(field, value) ==
  /\ AtRoute("board")
  /\ Idle /\ isEditMode /\ editTask # Null
  /\ editTask[field] # value
  /\ editTask' = [editTask EXCEPT ![field] = value]
  /\ UNCHANGED <<remote, allTasks, tasks, arrays, columns, allContacts, isLoading, reads, error,
                  drag, selectedTask, showTaskDetail, isEditMode, pending, summary, form, uncaught, auth, contactsPage>>

\* In-place change of one array of the edit buffer.
BufferWrite(a, value) ==
  /\ arrays' = [arrays EXCEPT ![a] = value]
  /\ UNCHANGED <<remote, allTasks, tasks, columns, allContacts, isLoading, reads, error,
                  drag, selectedTask, showTaskDetail, isEditMode, editTask, pending, summary, form, uncaught, auth, contactsPage>>

\* addSubtaskToEdit
addSubtaskToEdit ==
  /\ AtRoute("board")
  /\ Idle /\ isEditMode /\ editTask # Null
  /\ Len(arrays[editTask.subtasks]) < MaxSubtasks
  /\ BufferWrite(editTask.subtasks, Append(arrays[editTask.subtasks], NewSubtaskText))

\* removeSubtaskFromEdit(index)
removeSubtaskFromEdit(index) ==
  /\ AtRoute("board")
  /\ Idle /\ isEditMode /\ editTask # Null
  /\ index < Len(arrays[editTask.subtasks])
  /\ BufferWrite(editTask.subtasks, RemoveAt(arrays[editTask.subtasks], index))

\* removeAssignedContactFromEdit(contactId), for a contact shown as assigned
removeAssignedContactFromEdit(contactId) ==
  /\ AtRoute("board")
  /\ Idle /\ isEditMode /\ editTask # Null
  /\ indexOf(arrays[editTask.assignedTo], contactId) > -1
  /\ BufferWrite(editTask.assignedTo,
                 RemoveAt(arrays[editTask.assignedTo],
                          indexOf(arrays[editTask.assignedTo], contactId)))

\* toggleEditContactSelection(contact), for a contact of the dropdown
toggleEditContactSelection(contactId) ==
  /\ AtRoute("board")
  /\ Idle /\ isEditMode /\ editTask # Null
  /\ \E k \in DOMAIN allContacts : allContacts[k].id = contactId
  /\ LET assigned == arrays[editTask.assignedTo]
         index    == indexOf(assigned, contactId)
     IN  BufferWrite(editTask.assignedTo,
                     IF index = -1 THEN Append(assigned, contactId)
                     ELSE RemoveAt(assigned, index))

\* Fault variant of updateData: the status of the buffer is written as well.
updateData_withStatus(e, h) ==
  [ title |-> e.title, description |-> e.description, dueDate |-> e.dueDate,
    priority |-> e.priority, assignedTo |-> h[e.assignedTo], category |-> e.category,
    subtasks |-> h[e.subtasks], status |-> e.status ]

\* The updateData object of saveEditedTask.
updateData(e, h) ==
  [ title |-> e.title, description |-> e.description, dueDate |-> e.dueDate,
    priority |-> e.priority, assignedTo |-> h[e.assignedTo], category |-> e.category,
    subtasks |-> h[e.subtasks] ]

\* saveEditedTask up to its await: the only guard is that a buffer with an id
\* exists; the update is issued with the buffer's fields as they are.
saveEditedTask ==
  /\ AtRoute("board")
  /\ Idle /\ CanIssue /\ isEditMode
  /\ editTask # Null
  /\ pending' = Append(pending, [kind |-> "save", orphan |-> FALSE, id |-> editTask.id,
                                 payload |-> updateData(editTask, arrays)])
  /\ UNCHANGED <<remote, summary, form, auth, contactsPage>>
  /\ UNCHANGED boardVars

\* saveEditedTask after its await. this.editTask is read again: the record with
\* its id is replaced by { ...editTask }, selectedTask too, and edit mode ends.
\* When editTask is null by then, `this.editTask!.id` in the callback of
\* allTasks.findIndex throws; with allTasks empty the callback does not run
\* and selectedTask becomes { ...null }. The await and the callback stand in
\* the try block of lines 772-804, whose catch block sets the message.
saveEditedTask_settled(n, ok) ==
  /\ n \in DOMAIN pending /\ pending[n].kind = "save" /\ ~pending[n].orphan
  /\ remote' = IF ok THEN Resolved(n) ELSE remote
  /\ LET thrown == ~ok \/ (editTask = Null /\ allTasks # <<>>)
         try    == <<Frame(ErrSave, FALSE)>>
     IN  /\ IF thrown
            THEN /\ error' = ErrorAfter(thrown, try)
                 /\ pending' = Settled(n)
                 /\ UNCHANGED <<columns, tasks, selectedTask, editTask, arrays, isEditMode>>
            ELSE IF editTask = Null
            THEN /\ Commit(tasks, EmptyObject, Null, arrays)
                 /\ isEditMode' = FALSE
                 /\ pending' = Settled(n)
                 /\ UNCHANGED <<columns, error>>
            ELSE LET found == tasks[editTask.id] # Null
                     t     == IF found THEN [tasks EXCEPT ![editTask.id] = editTask]
                              ELSE tasks
                 IN  /\ columns' = IF found THEN sortTasksIntoColumns(allTasks, t)
                                   ELSE columns
                     /\ Commit(t, editTask, Null, arrays)
                     /\ isEditMode' = FALSE
                     /\ pending' = IF found THEN Orphan(Settled(n), editTask.id)
                                   ELSE Settled(n)
                     /\ UNCHANGED error
         /\ uncaught' = (uncaught \/ Escapes(thrown, try))
  /\ UNCHANGED <<allTasks, allContacts, isLoading, reads, drag, showTaskDetail, summary, form, auth, contactsPage>>

\* ------------------------------------------------------- add-task page

\* What the inputs of the add-task form are set to (two-way binding).
AddTaskInputs ==
  [ title    |-> Texts,
    dueDate  |-> {t \in Texts : Len(t) <= 1},
    category |-> {t \in Texts : Len(t) <= 1} ]

addTaskInput(field, value) ==
  /\ AtRoute("add-task")
  /\ form[field] # value
  /\ form' = [form EXCEPT ![field] = value]
  /\ UNCHANGED <<remote, pending, summary, auth, contactsPage>>
  /\ UNCHANGED boardVars

\* setPriority
setPriority(priority) ==
  /\ AtRoute("add-task")
  /\ form.priority # priority
  /\ form' = [form EXCEPT !.priority = priority]
  /\ UNCHANGED <<remote, pending, summary, auth, contactsPage>>
  /\ UNCHANGED boardVars

\* The documents of the tasks collection and those addDoc is about to add.
Adding ==
  Len(Docs(remote))
    + Cardinality({n \in DOMAIN pending :
                     \/ pending[n].kind \in {"add", "addOlder"}
                     \/ pending[n].kind = "unloaded"
                          /\ pending[n].call.kind \in {"add", "addOlder"}})

\* The document onSubmit of src/src/app/pages/add-task/add-task.component.ts
\* passes to addDoc: neither status nor completedSubtasks.
NewTask_older ==
  [ title |-> trim(form.title), description |-> trim(form.description),
    dueDate |-> trim(form.dueDate), priority |-> form.priority,
    assignedTo |-> form.assignedTo, category |-> trim(form.category),
    subtasks |-> form.subtasks, createdAt |-> "now" ]

\* The document onSubmit of src/unnamed/part_001 passes to addDoc; "now" is
\* new Date().toISOString().
NewTask ==
  [ title |-> trim(form.title), description |-> trim(form.description),
    dueDate |-> trim(form.dueDate), priority |-> form.priority,
    assignedTo |-> form.assignedTo, category |-> trim(form.category),
    subtasks |-> form.subtasks, status |-> "todo", createdAt |-> "now",
    completedSubtasks |-> <<>> ]

\* onSubmit up to its await, the call of addDoc being `call`: both messages
\* cleared, the three required fields checked in turn, then addDoc. The two
\* revisions differ in the document only.
Submitted(call) ==
  LET cleared == [form EXCEPT !.error = "", !.success = ""]
  IN  /\ AtRoute("add-task")
      /\ IF trim(form.title) = <<>>
         THEN form' = [cleared EXCEPT !.error = ErrTitle] /\ UNCHANGED pending
         ELSE IF trim(form.dueDate) = <<>>
         THEN form' = [cleared EXCEPT !.error = ErrDueDate] /\ UNCHANGED pending
         ELSE IF trim(form.category) = <<>>
         THEN form' = [cleared EXCEPT !.error = ErrCategory] /\ UNCHANGED pending
         ELSE /\ CanIssue /\ Adding < MaxTasks
              /\ form' = cleared
              /\ pending' = Append(pending, call)
      /\ UNCHANGED <<remote, summary, auth, contactsPage>>
      /\ UNCHANGED boardVars

\* onSubmit, src/unnamed/part_001.
onSubmit == Submitted([kind |-> "add", payload |-> NewTask, orphan |-> FALSE])

\* onSubmit, src/src/app/pages/add-task/add-task.component.ts.
onSubmit_older ==
  Submitted([kind |-> "addOlder", payload |-> NewTask_older, orphan |-> FALSE])

\* Fault variant of onSubmit_settled: the reset after a successful insert
\* leaves the priority as chosen.
onSubmit_settled_keepingPriority(n, ok) ==
  /\ n \in DOMAIN pending /\ pending[n].kind = "add" /\ ~pending[n].orphan
  /\ pending' = Settled(n)
  /\ remote' = IF ok THEN Inserted(remote, pending[n].payload) ELSE remote
  /\ form' = IF ok
             THEN [form EXCEPT !.success = TaskCreated, !.title = <<>>,
                               !.description = <<>>, !.dueDate = <<>>,
                               !.assignedTo = <<>>,
                               !.category = <<>>, !.subtasks = <<>>,
                               !.timers = @ + 1]
             ELSE [form EXCEPT !.error = ErrAdd]
  /\ UNCHANGED <<summary, auth, contactsPage>>
  /\ UNCHANGED boardVars

\* onSubmit (src/unnamed/part_001) after its await: the collection has the
\* document; the success message, the form reset and the timer of the
\* redirect, or the catch block.
onSubmit_settled(n, ok) ==
  /\ n \in DOMAIN pending /\ pending[n].kind = "add" /\ ~pending[n].orphan
  /\ pending' = Settled(n)
  /\ remote' = IF ok THEN Inserted(remote, pending[n].payload) ELSE remote
  /\ form' = IF ok
             THEN [form EXCEPT !.success = TaskCreated, !.title = <<>>,
                               !.description = <<>>, !.dueDate = <<>>,
                               !.priority = "medium", !.assignedTo = <<>>,
                               !.category = <<>>, !.subtasks = <<>>,
                               !.timers = @ + 1]
             ELSE [form EXCEPT !.error = ErrAdd]
  /\ UNCHANGED <<summary, auth, contactsPage>>
  /\ UNCHANGED boardVars

\* onSubmit (src/src/app/pages/add-task/add-task.component.ts) after its
\* await: the same reset, with the messages of that revision and no redirect.
onSubmit_older_settled(n, ok) ==
  /\ n \in DOMAIN pending /\ pending[n].kind = "addOlder" /\ ~pending[n].orphan
  /\ pending' = Settled(n)
  /\ remote' = IF ok THEN Inserted(remote, pending[n].payload) ELSE remote
  /\ form' = IF ok
             THEN [form EXCEPT !.success = TaskCreated_older, !.title = <<>>,
                               !.description = <<>>, !.dueDate = <<>>,
                               !.priority = "medium", !.assignedTo = <<>>,
                               !.category = <<>>, !.subtasks = <<>>]
             ELSE [form EXCEPT !.error = ErrAdd_older]
  /\ UNCHANGED <<summary, auth, contactsPage>>
  /\ UNCHANGED boardVars

\* The setTimeout callback of onSubmit: the success message is taken away and
\* router.navigate(['/board']) is called, its promise not awaited.
onSubmit_timeout ==
  /\ form.timers > 0
  /\ form' = [form EXCEPT !.success = "", !.timers = @ - 1]
  /\ auth' = Navigated(auth, "board", "none")
  /\ UNCHANGED <<remote, pending, summary, contactsPage>>
  /\ UNCHANGED boardVars

\* The same callback of a component the outlet has replaced: the message it
\* takes away is shown nowhere, and router.navigate(['/board']) is called.
onSubmit_timeout_detached ==
  /\ form.detached > 0
  /\ form' = [form EXCEPT !.detached = @ - 1]
  /\ auth' = Navigated(auth, "board", "none")
  /\ UNCHANGED <<remote, pending, summary, contactsPage>>
  /\ UNCHANGED boardVars

\* ------------------------------------------- subtasks of the add-task form

\* What the two subtask inputs of the add-task form are set to.
SubtaskInputs == {t \in Texts : Len(t) <= 1}

\* The input for a new subtask writes newSubtask (two-way binding).
newSubtaskInput(value) ==
  /\ AtRoute("add-task")
  /\ form.newSubtask # value
  /\ form' = [form EXCEPT !.newSubtask = value]
  /\ UNCHANGED <<remote, pending, summary, auth, contactsPage>>
  /\ UNCHANGED boardVars

\* addSubtask: the trimmed input is pushed when it is not empty.
addSubtask ==
  /\ AtRoute("add-task")
  /\ trim(form.newSubtask) # <<>>
  /\ Len(form.subtasks) < MaxFormSubtasks
  /\ form' = [form EXCEPT !.subtasks = Append(@, trim(form.newSubtask)),
                          !.newSubtask = <<>>]
  /\ UNCHANGED <<remote, pending, summary, auth, contactsPage>>
  /\ UNCHANGED boardVars

\* startEditSubtask, called from the list entry of subtask `index`.
startEditSubtask(index) ==
  /\ AtRoute("add-task")
  /\ index < Len(form.subtasks)
  /\ form' = [form EXCEPT !.editSubtaskIndex = index,
                          !.editSubtaskValue = form.subtasks[index + 1]]
  /\ UNCHANGED <<remote, pending, summary, auth, contactsPage>>
  /\ UNCHANGED boardVars

\* The input of the subtask being edited writes editSubtaskValue.
editSubtaskInput(value) ==
  /\ AtRoute("add-task")
  /\ form.editSubtaskIndex # NoIndex
  /\ form.editSubtaskValue # value
  /\ form' = [form EXCEPT !.editSubtaskValue = value]
  /\ UNCHANGED <<remote, pending, summary, auth, contactsPage>>
  /\ UNCHANGED boardVars

\* array[i0] = x in JavaScript: an index past the end lengthens the array and
\* leaves the elements between unassigned.
AssignAt(seq, i0, x) ==
  [k \in 1..Max(Len(seq), i0 + 1) |->
     IF k = i0 + 1 THEN x ELSE IF k <= Len(seq) THEN seq[k] ELSE Hole]

\* confirmEditSubtask: the trimmed value, when not empty, is assigned at
\* editSubtaskIndex, and the edit ends. (On an undefined value trim() throws
\* and nothing is assigned.)
confirmEditSubtask ==
  /\ AtRoute("add-task")
  /\ form.editSubtaskIndex # NoIndex
  /\ form.editSubtaskValue # Hole
  /\ LET value == trim(form.editSubtaskValue)
     IN  form' = [form EXCEPT
                    !.subtasks = IF value # <<>>
                                 THEN AssignAt(@, form.editSubtaskIndex, value)
                                 ELSE @,
                    !.editSubtaskIndex = NoIndex,
                    !.editSubtaskValue = <<>>]
  /\ UNCHANGED <<remote, pending, summary, auth, contactsPage>>
  /\ UNCHANGED boardVars

\* cancelEditSubtask
cancelEditSubtask ==
  /\ AtRoute("add-task")
  /\ form.editSubtaskIndex # NoIndex
  /\ form' = [form EXCEPT !.editSubtaskIndex = NoIndex, !.editSubtaskValue = <<>>]
  /\ UNCHANGED <<remote, pending, summary, auth, contactsPage>>
  /\ UNCHANGED boardVars

\* removeSubtask, called from the list entry of subtask `index`: splice, then
\* the edit ends if it was on that entry, and moves down by one if it was on a
\* later one.
removeSubtask(index) ==
  /\ AtRoute("add-task")
  /\ index < Len(form.subtasks)
  /\ form' = [form EXCEPT
                 !.subtasks = RemoveAt(@, index),
                 !.editSubtaskIndex = IF @ = index THEN NoIndex
                                      ELSE IF @ # NoIndex /\ @ > index THEN @ - 1
                                      ELSE @,
                 !.editSubtaskValue = IF form.editSubtaskIndex = index THEN <<>> ELSE @]
  /\ UNCHANGED <<remote, pending, summary, auth, contactsPage>>
  /\ UNCHANGED boardVars

\* addSubtaskFromInput, called with the input element of the subtask field:
\* the trimmed value of the element is pushed when it is not empty, and the
\* element and newSubtask are emptied.
addSubtaskFromInput(value) ==
  /\ AtRoute("add-task")
  /\ trim(value) # <<>>
  /\ Len(form.subtasks) < MaxFormSubtasks
  /\ form' = [form EXCEPT !.subtasks = Append(@, trim(value)),
                          !.newSubtask = <<>>]
  /\ UNCHANGED <<remote, pending, summary, auth, contactsPage>>
  /\ UNCHANGED boardVars

\* clearSubtaskInput
clearSubtaskInput ==
  /\ AtRoute("add-task")
  /\ form.newSubtask # <<>>
  /\ form' = [form EXCEPT !.newSubtask = <<>>]
  /\ UNCHANGED <<remote, pending, summary, auth, contactsPage>>
  /\ UNCHANGED boardVars

\* selectCategory, called from an entry of the category list.
selectCategory(categoryName) ==
  /\ AtRoute("add-task")
  /\ form.category # categoryName
  /\ form' = [form EXCEPT !.category = categoryName]
  /\ UNCHANGED <<remote, pending, summary, auth, contactsPage>>
  /\ UNCHANGED boardVars

\* toggleContactSelection, called from an entry of the contact list: the id of
\* the contact is pushed to assignedTo, or spliced out when it is there.
toggleContactSelection(contactId) ==
  /\ AtRoute("add-task")
  /\ form' = [form EXCEPT
                 !.assignedTo = IF indexOf(@, contactId) = -1
                                THEN Append(@, contactId)
                                ELSE RemoveAt(@, indexOf(@, contactId))]
  /\ UNCHANGED <<remote, pending, summary, auth, contactsPage>>
  /\ UNCHANGED boardVars

\* clearForm
clearForm ==
  /\ AtRoute("add-task")
  /\ form # [EmptyForm EXCEPT !.timers = form.timers, !.detached = form.detached]
  /\ form' = [EmptyForm EXCEPT !.timers = form.timers, !.detached = form.detached]
  /\ UNCHANGED <<remote, pending, summary, auth, contactsPage>>
  /\ UNCHANGED boardVars

\* ------------------------------------------------ contacts page handlers

\* What no handler of the contacts page touches.
ContactsFrame ==
  /\ UNCHANGED <<remote, summary, form, auth>>
  /\ UNCHANGED boardVars

\* resetAddForm
resetAddForm(c) == [c EXCEPT !.addName = <<>>, !.addEmail = <<>>, !.addError = ""]

\* resetEditForm
resetEditForm(c) == [c EXCEPT !.editName = <<>>, !.editEmail = <<>>, !.editError = ""]

\* ngOnInit -> loadContacts up to its await: getDocs is called.
ContactsComponent_ngOnInit ==
  /\ AtRoute("contacts")
  /\ contactsPage.read = "none"
  /\ contactsPage' = [contactsPage EXCEPT !.read = "pending"]
  /\ UNCHANGED pending
  /\ ContactsFrame

\* loadContacts after its await: the list is assigned from the snapshot, which
\* holds the collection as it is when the read settles; a rejected read is
\* caught and leaves the list as it is.
loadContacts(ok) ==
  /\ contactsPage.read = "pending"
  /\ contactsPage' = [contactsPage EXCEPT
                        !.read = Outcome(ok),
                        !.contacts = IF ok THEN contactsPage.collection ELSE @]
  /\ UNCHANGED pending
  /\ ContactsFrame

\* No dialog covers the list of the page.
NoOverlay ==
  ~contactsPage.showAddContactOverlay /\ ~contactsPage.showEditContactOverlay

\* showContactDetail, called from the list entry at position k.
showContactDetail(k) ==
  /\ AtRoute("contacts")
  /\ NoOverlay
  /\ k \in DOMAIN contactsPage.contacts
  /\ contactsPage.selectedContact # contactsPage.contacts[k]
  /\ contactsPage' = [contactsPage EXCEPT !.selectedContact = contactsPage.contacts[k]]
  /\ UNCHANGED pending
  /\ ContactsFrame

\* closeContactDetail
closeContactDetail ==
  /\ AtRoute("contacts")
  /\ NoOverlay
  /\ contactsPage.selectedContact # Null
  /\ contactsPage' = [contactsPage EXCEPT !.selectedContact = Null]
  /\ UNCHANGED pending
  /\ ContactsFrame

\* onFabAddClick -> openAddContact: the button adds while no contact is
\* selected.
openAddContact ==
  /\ AtRoute("contacts")
  /\ NoOverlay
  /\ contactsPage.selectedContact = Null
  /\ contactsPage' = [resetAddForm(contactsPage) EXCEPT !.showAddContactOverlay = TRUE]
  /\ UNCHANGED pending
  /\ ContactsFrame

\* closeAddContactOverlay
closeAddContactOverlay ==
  /\ AtRoute("contacts")
  /\ contactsPage.showAddContactOverlay
  /\ contactsPage' = [resetAddForm(contactsPage) EXCEPT !.showAddContactOverlay = FALSE]
  /\ UNCHANGED pending
  /\ ContactsFrame

\* The fields the inputs of the two overlays are bound to, with the overlay
\* that shows them.
ContactInputs ==
  [ addName |-> NameInputs, addEmail |-> EmailInputs,
    editName |-> NameInputs,
    editEmail |-> {e \in EmailInputs : e[1] \in {" ", "x"}} ]

\* An input of an overlay writes its field (two-way binding).
contactInput(field, value) ==
  /\ AtRoute("contacts")
  /\ IF field \in {"addName", "addEmail"}
     THEN contactsPage.showAddContactOverlay
     ELSE contactsPage.showEditContactOverlay
  /\ contactsPage[field] # value
  /\ contactsPage' = [contactsPage EXCEPT ![field] = value]
  /\ UNCHANGED pending
  /\ ContactsFrame

\* contacts.some(contact => contact.email.toLowerCase() === email.toLowerCase()),
\* leaving out the contact with id `except` (0: none is left out).
isDuplicate(contacts, email, except) ==
  \E k \in DOMAIN contacts :
    /\ contacts[k].id # except
    /\ toLowerCase(contacts[k].email) = toLowerCase(email)

\* Documents the contacts collection has been given or is being given.
AddingContacts ==
  Len(StoredContacts) + contactsPage.added
    + Cardinality({n \in DOMAIN pending : pending[n].kind = "addContact"})

\* addContact up to its await: required fields, address format, duplicate
\* check against the local list, then addDoc.
addContact ==
  /\ AtRoute("contacts")
  /\ contactsPage.showAddContactOverlay
  /\ LET c == contactsPage
         refuse(msg) == /\ contactsPage' = [c EXCEPT !.addError = msg]
                        /\ UNCHANGED pending
     IN  IF trim(c.addName) = <<>> \/ trim(c.addEmail) = <<>>
         THEN refuse(ErrContactRequired)
         ELSE IF ~emailRegexTest(trim(c.addEmail))
         THEN refuse(ErrContactEmail)
         ELSE IF isDuplicate(c.contacts, trim(c.addEmail), 0)
         THEN refuse(ErrContactDuplicate)
         ELSE /\ CanIssue /\ AddingContacts < MaxContacts
              /\ pending' = Append(pending,
                                   [kind |-> "addContact", orphan |-> FALSE,
                                    payload |-> [name |-> trim(c.addName),
                                                 email |-> trim(c.addEmail)]])
              /\ UNCHANGED contactsPage
  /\ ContactsFrame

\* addContact after its await: the document is in the collection, the new
\* contact, with the id of the document, is pushed to the list and the overlay
\* is closed; or the catch block.
addContact_settled(n, ok) ==
  /\ n \in DOMAIN pending /\ pending[n].kind = "addContact" /\ ~pending[n].orphan
  /\ pending' = Settled(n)
  /\ LET c == contactsPage
         addedContact == [id |-> Len(StoredContacts) + c.added + 1,
                          name |-> pending[n].payload.name,
                          email |-> pending[n].payload.email]
     IN  contactsPage' =
           IF ok
           THEN [resetAddForm(c) EXCEPT
                   !.added = @ + 1,
                   !.collection = Append(@, addedContact),
                   !.contacts = Append(@, addedContact),
                   !.showAddContactOverlay = FALSE]
           ELSE [c EXCEPT !.addError = ErrContactSave]
  /\ ContactsFrame

\* editContact, from the menu of the selected contact.
editContact ==
  /\ AtRoute("contacts")
  /\ contactsPage.selectedContact # Null
  /\ NoOverlay
  /\ contactsPage' = [contactsPage EXCEPT
                        !.editName = contactsPage.selectedContact.name,
                        !.editEmail = contactsPage.selectedContact.email,
                        !.editError = "",
                        !.showEditContactOverlay = TRUE]
  /\ UNCHANGED pending
  /\ ContactsFrame

\* closeEditContactOverlay
closeEditContactOverlay ==
  /\ AtRoute("contacts")
  /\ contactsPage.showEditContactOverlay
  /\ contactsPage' = [resetEditForm(contactsPage) EXCEPT !.showEditContactOverlay = FALSE]
  /\ UNCHANGED pending
  /\ ContactsFrame

\* saveEditContact up to its await: required fields, address format,
\* duplicate check against the other contacts of the local list, then
\* updateDoc on the document of the selected contact.
saveEditContact ==
  /\ AtRoute("contacts")
  /\ contactsPage.showEditContactOverlay
  /\ contactsPage.selectedContact # Null
  /\ LET c == contactsPage
         refuse(msg) == /\ contactsPage' = [c EXCEPT !.editError = msg]
                        /\ UNCHANGED pending
     IN  IF trim(c.editName) = <<>> \/ trim(c.editEmail) = <<>>
         THEN refuse(ErrContactRequired)
         ELSE IF ~emailRegexTest(trim(c.editEmail))
         THEN refuse(ErrContactEmail)
         ELSE IF isDuplicate(c.contacts, trim(c.editEmail), c.selectedContact.id)
         THEN refuse(ErrEditDuplicate)
         ELSE /\ CanIssue
              /\ pending' = Append(pending,
                                   [kind |-> "saveContact", orphan |-> FALSE,
                                    id |-> c.selectedContact.id,
                                    payload |-> [name |-> trim(c.editName),
                                                 email |-> trim(c.editEmail)]])
              /\ UNCHANGED contactsPage
  /\ ContactsFrame

\* updateDoc on the contacts collection: the fields of the payload are merged
\* into the document with this id, if the collection holds it.
UpdatedContacts(collection, id, updatedData) ==
  [k \in DOMAIN collection |->
     IF collection[k].id = id
     THEN [id |-> id, name |-> updatedData.name, email |-> updatedData.email]
     ELSE collection[k]]

\* saveEditContact after its await. this.selectedContact is read again: the
\* entry of the list with its id is replaced by the selected contact with the
\* data written, and becomes the selected contact; then the overlay is closed.
\* With selectedContact null by then the findIndex callback throws into the
\* catch block (unless the list is empty).
saveEditContact_settled(n, ok) ==
  /\ n \in DOMAIN pending /\ pending[n].kind = "saveContact" /\ ~pending[n].orphan
  /\ pending' = Settled(n)
  /\ LET c == [contactsPage EXCEPT
                 !.collection = IF ok THEN UpdatedContacts(@, pending[n].id, pending[n].payload)
                                ELSE @]
         updatedData == pending[n].payload
         thrown == c.selectedContact = Null /\ c.contacts # <<>>
         merged == [id |-> c.selectedContact.id, name |-> updatedData.name,
                    email |-> updatedData.email]
     IN  contactsPage' =
           IF ~ok THEN [c EXCEPT !.editError = ErrEditSave]
           ELSE IF thrown THEN [c EXCEPT !.editError = ErrEditSave]
           ELSE IF c.selectedContact = Null
           THEN [resetEditForm(c) EXCEPT !.showEditContactOverlay = FALSE]
           ELSE [resetEditForm(c) EXCEPT
                   !.contacts = [k \in DOMAIN @ |->
                                   IF @[k].id = c.selectedContact.id THEN merged ELSE @[k]],
                   !.selectedContact =
                      IF \E k \in DOMAIN c.contacts : c.contacts[k].id = @.id
                      THEN merged ELSE @,
                   !.showEditContactOverlay = FALSE]
  /\ ContactsFrame

\* deleteContact up to its await, from the menu of the selected contact: the
\* confirm dialog, then deleteDoc on the document of the selected contact.
deleteContact(confirmed) ==
  /\ AtRoute("contacts")
  /\ contactsPage.selectedContact # Null
  /\ NoOverlay
  /\ IF confirmed
     THEN /\ CanIssue
          /\ pending' = Append(pending, [kind |-> "deleteContact", orphan |-> FALSE,
                                         id |-> contactsPage.selectedContact.id])
     ELSE UNCHANGED pending
  /\ UNCHANGED contactsPage
  /\ ContactsFrame

\* deleteContact after its await: the document has left the collection.
\* this.selectedContact is read again in the filter callback: the contacts with
\* another id than the selected one stay in the list, and closeContactDetail
\* takes the selection away. With selectedContact null by then the filter
\* callback throws into the catch block (unless the list is empty); a
\* rejected deleteDoc ends there too, and the catch block changes no field.
deleteContact_settled(n, ok) ==
  /\ n \in DOMAIN pending /\ pending[n].kind = "deleteContact" /\ ~pending[n].orphan
  /\ pending' = Settled(n)
  /\ LET c == [contactsPage EXCEPT
                 !.collection = IF ok THEN SelectSeq(@, LAMBDA d : d.id # pending[n].id)
                                ELSE @]
         thrown == c.selectedContact = Null /\ c.contacts # <<>>
     IN  contactsPage' =
           IF ~ok \/ thrown THEN c
           ELSE [c EXCEPT
                   !.contacts = IF c.selectedContact = Null THEN @
                                ELSE SelectSeq(@, LAMBDA d : d.id # c.selectedContact.id),
                   !.selectedContact = Null]
  /\ ContactsFrame

\* ---------------------------------------------------- login and logout

\* What no action of the login, the logout or the router touches.
AuthFrame ==
  /\ UNCHANGED <<remote, summary, form, contactsPage>>
  /\ UNCHANGED boardVars

\* LoginComponent.login up to its await; `filled` says whether both the e-mail
\* and the password have something besides blanks.
login(email, filled) ==
  /\ auth.url = "login"
  /\ IF filled
     THEN /\ CanIssue
          /\ auth' = [auth EXCEPT !.errorMessage = ""]
          /\ pending' = Append(pending, [kind |-> "login", email |-> email,
                                         orphan |-> FALSE])
     ELSE /\ auth' = [auth EXCEPT !.errorMessage = ErrLoginFields]
          /\ UNCHANGED pending
  /\ AuthFrame

\* LoginComponent.loginAsGuest up to its await.
loginAsGuest ==
  /\ auth.url = "login" /\ CanIssue
  /\ auth' = [auth EXCEPT !.errorMessage = ""]
  /\ pending' = Append(pending, [kind |-> "loginAsGuest", email |-> guestEmail,
                                 orphan |-> FALSE])
  /\ AuthFrame

\* What follows a sign-in that has succeeded, in login and in loginAsGuest:
\* the provider has the user, setManualLogin, then router.navigate(['/summary'])
\* is called and awaited by `caller`.
SignedIn(a, email, caller) ==
  Navigated(setManualLogin([a EXCEPT !.currentUser = email]), "summary", caller)

\* The message a catch block leaves in the LoginComponent created last, unless
\* the call was made by a component that has been replaced since.
Caught(a, call, message) ==
  IF call.orphan THEN a ELSE [a EXCEPT !.errorMessage = message]

\* The call that awaits the navigation a handler of `call` starts.
Awaiting(call) == IF call.orphan THEN "none" ELSE call.kind

\* login after the await of the sign-in: setManualLogin and the call of
\* router.navigate, which is awaited in the same try block; or
\* handleLoginError.
login_settled(n, ok, err) ==
  /\ n \in DOMAIN pending /\ pending[n].kind = "login"
  /\ pending' = Settled(n)
  /\ auth' = IF ok THEN SignedIn(auth, pending[n].email, Awaiting(pending[n]))
             ELSE Caught(auth, pending[n], handleLoginError(err))
  /\ AuthFrame

\* loginAsGuest after the await of the sign-in, or its catch block.
loginAsGuest_settled(n, ok) ==
  /\ n \in DOMAIN pending /\ pending[n].kind = "loginAsGuest"
  /\ pending' = Settled(n)
  /\ auth' = IF ok THEN SignedIn(auth, pending[n].email, Awaiting(pending[n]))
             ELSE Caught(auth, pending[n], ErrGuestLogin)
  /\ AuthFrame

\* The registrations whose redirect has not run yet.
Registering ==
  auth.register.timers
    + Cardinality({k \in DOMAIN pending : pending[k].kind = "register"})

\* RegisterComponent.register up to its await; `matching` says whether the
\* password and its confirmation are the same.
register(email, matching) ==
  /\ auth.url = "register"
  /\ IF matching
     THEN /\ CanIssue /\ Registering < MaxRegistrations
          /\ auth' = [auth EXCEPT !.register.errorMessage = "",
                                  !.register.successMessage = ""]
          /\ pending' = Append(pending, [kind |-> "register", email |-> email,
                                         orphan |-> FALSE])
     ELSE /\ auth' = [auth EXCEPT !.register.errorMessage = ErrPasswordsDiffer,
                                  !.register.successMessage = ""]
          /\ UNCHANGED pending
  /\ AuthFrame

\* register after its await: createUserWithEmailAndPassword has signed the new
\* user in at the provider, the success message is set and the redirect to
\* login is started (setManualLogin is not called); or the catch block.
register_settled(n, ok, code) ==
  /\ n \in DOMAIN pending /\ pending[n].kind = "register"
  /\ pending' = Settled(n)
  /\ LET shown == ~pending[n].orphan
     IN  auth' = IF ok
                 THEN [auth EXCEPT !.currentUser = pending[n].email,
                                   !.register.successMessage =
                                      IF shown THEN Registered ELSE @,
                                   !.register.timers = @ + 1]
                 ELSE [auth EXCEPT !.register.errorMessage =
                                      IF shown THEN registerError(code) ELSE @]
  /\ AuthFrame

\* The setTimeout callback of register: router.navigate(['/login']) is
\* called, its promise not awaited.
register_timeout ==
  /\ auth.register.timers > 0
  /\ auth' = [Navigated(auth, "login", "none") EXCEPT !.register.timers = @ - 1]
  /\ UNCHANGED pending
  /\ AuthFrame

\* HeaderComponent.logout -> AuthService.logout up to await this.auth.signOut().
logout ==
  /\ CanIssue
  /\ pending' = Append(pending, [kind |-> "logout", orphan |-> FALSE])
  /\ UNCHANGED auth
  /\ AuthFrame

\* AuthService.logout after signOut has settled: the flag is taken back and
\* router.navigate(['/login']) is called and awaited, all inside the try
\* block, so a rejected signOut skips both. The page that is shown stays
\* until the navigation is activated.
logout_settled(n, ok) ==
  /\ n \in DOMAIN pending /\ pending[n].kind = "logout"
  /\ pending' = Settled(n)
  /\ LET b == [auth EXCEPT !.currentUser = NoUser,
                           !.manualLoginSubject = FALSE,
                           !.join_manual_login = FALSE]
     IN  auth' = IF ok THEN Navigated(b, "login", "logout") ELSE auth
  /\ AuthFrame

\* router.navigate([path]) from a link, the navbar or the address bar.
navigate(path) ==
  /\ auth' = Navigated(auth, path, "none")
  /\ UNCHANGED pending
  /\ AuthFrame

\* What a navigation rejects with when the import of the component fails: an
\* error without a code.
NavigationError == [code |-> Undefined, message |-> "Failed to fetch dynamically imported module"]

\* The navigation in flight comes to its end. The component of the route is
\* imported (loadComponent, app.routes.ts); then the route is activated: the
\* outlet replaces the component it shows by a new one of the route and the
\* address of the browser follows. When the import fails (ok false) the
\* navigation is rejected and the page stays: login and loginAsGuest await it
\* in their try block and end in their catch block, logout catches and logs
\* it, and nothing else awaits a navigation.
Router_activated(ok) ==
  /\ auth.navigation # NoNavigation
  /\ LET target  == auth.navigation.target
         awaited == auth.navigation.awaitedBy
         stayed  == [auth EXCEPT !.navigation = NoNavigation]
     IN  IF ok
         THEN /\ auth' = RouteTo(auth, target)
              /\ pending' = Detached(pending, auth, target)
              /\ Outlet(auth, target)
         ELSE /\ auth' = IF awaited = "login"
                         THEN [stayed EXCEPT !.errorMessage = handleLoginError(NavigationError)]
                         ELSE IF awaited = "loginAsGuest"
                         THEN [stayed EXCEPT !.errorMessage = ErrGuestLogin]
                         ELSE stayed
              /\ UNCHANGED pending
              /\ AuthFrame

\* The effect of a call on the store, whether or not a component waits for
\* it: the tasks collection ...
RemoteAfter(call, ok) ==
  IF ~ok THEN remote
  ELSE IF call.kind \in {"drop", "move", "toggle", "delete", "save"} THEN Written(call)
  ELSE IF call.kind \in {"add", "addOlder"} THEN Inserted(remote, call.payload)
  ELSE remote

\* ... and the contacts collection, with the count of the documents added.
CollectionAfter(call, ok) ==
  LET done(kind) == ok /\ call.kind = kind
  IN  [contactsPage EXCEPT
         !.added = IF done("addContact") THEN @ + 1 ELSE @,
         !.collection =
            IF done("addContact")
            THEN Append(@, [id |-> Len(StoredContacts) + contactsPage.added + 1,
                            name |-> call.payload.name,
                            email |-> call.payload.email])
            ELSE IF done("saveContact")
            THEN UpdatedContacts(@, call.id, call.payload)
            ELSE IF done("deleteContact")
            THEN SelectSeq(@, LAMBDA d : d.id # call.id)
            ELSE @]

\* A call made by a component of one of the three pages settles once the
\* outlet has replaced that component: what it has written is in the store,
\* the fields its continuation assigns are shown nowhere, and the redirect a
\* successful onSubmit of src/unnamed/part_001 schedules still runs.
orphan_settled(n, ok) ==
  /\ n \in DOMAIN pending /\ pending[n].orphan
  /\ CallerRoute(pending[n]) \in {"board", "add-task", "contacts"}
  /\ pending' = Settled(n)
  /\ remote' = RemoteAfter(pending[n], ok)
  /\ contactsPage' = CollectionAfter(pending[n], ok)
  /\ form' = IF ok /\ pending[n].kind = "add" THEN [form EXCEPT !.detached = @ + 1]
             ELSE form
  /\ UNCHANGED <<summary, auth>>
  /\ UNCHANGED boardVars

\* The calls in flight when the page is loaded again: a write of a page has
\* been sent and reaches the store or fails, with nothing waiting for it; a
\* call of the provider is dropped with the page.
Unloaded(p) ==
  LET writes == SelectSeq(p, LAMBDA c : c.kind \notin {"login", "loginAsGuest",
                                                       "register", "logout"})
  IN  [k \in DOMAIN writes |->
         IF writes[k].kind = "unloaded" THEN writes[k]
         ELSE [kind |-> "unloaded", orphan |-> TRUE, call |-> writes[k]]]

\* A write of a page that has been loaded again since settles: its effect on
\* the store, and no continuation.
unloaded_settled(n, ok) ==
  /\ n \in DOMAIN pending /\ pending[n].kind = "unloaded"
  /\ pending' = Settled(n)
  /\ remote' = RemoteAfter(pending[n].call, ok)
  /\ contactsPage' = CollectionAfter(pending[n].call, ok)
  /\ UNCHANGED <<summary, form, auth>>
  /\ UNCHANGED boardVars

\* The page is loaded again, in the same browser session or in a new one
\* (sessionStorage empty); the provider keeps its user. AuthService is
\* constructed anew: manualLoginSubject takes the flag of sessionStorage. The
\* router starts its first navigation, to the address of the browser (to ''
\* in a new session, which is redirected to login); its guard may run before
\* the provider has restored its user (`restored` false), and then sees no
\* user. Until that navigation is activated the outlet shows nothing.
AuthService_constructor(newSession, restored) ==
  /\ LET flag == auth.join_manual_login /\ ~newSession
         requested == IF newSession THEN "login" ELSE auth.address
         b    == [auth EXCEPT !.join_manual_login = flag, !.manualLoginSubject = flag,
                              !.url = "none", !.address = requested,
                              !.errorMessage = "",
                              !.register = [errorMessage |-> "", successMessage |-> "",
                                            timers |-> 0]]
         seen == IF restored THEN b ELSE [b EXCEPT !.currentUser = NoUser]
     IN  auth' = [b EXCEPT !.navigation = [target |-> Activated(seen, requested),
                                           awaitedBy |-> "none"]]
  /\ Reloaded
  /\ pending' = Unloaded(pending)

\* AuthService.enableAdminMode
enableAdminMode ==
  /\ auth' = [auth EXCEPT !.join_admin_mode = TRUE]
  /\ UNCHANGED pending
  /\ AuthFrame

\* AuthService.disableAdminMode
disableAdminMode ==
  /\ auth' = [auth EXCEPT !.join_admin_mode = FALSE]
  /\ UNCHANGED pending
  /\ AuthFrame

\* --------------------------------------------------------- specifications

Indices == 0..MaxTasks

\* The ids of the contacts the store holds when the application is opened.
Contacts == {StoredContacts[k].id : k \in DOMAIN StoredContacts}

\* Every document: any status or none, deleted or not, urgent or medium;
\* documents of the older form have neither status nor completedSubtasks.
AnyDoc ==
  {TaskDoc(s, d, p, IF s = Undefined THEN None ELSE Some(<<>>)) :
     s \in StatusSet \cup {Undefined}, d \in BOOLEAN, p \in {"urgent", "medium"}}

\* Every collection of MaxTasks such documents.
InitLoad == InitWith([TaskIds -> AnyDoc], "board")

\* A collection as the current AddTaskComponent writes it: every task in todo.
AllTodo == {[i \in TaskIds |-> TaskDoc("todo", FALSE, "medium", Some(<<>>))]}

InitBoard == InitWith(AllTodo, "board")

\* An empty tasks collection, on the add-task page.
InitAddTask == InitWith({[i \in TaskIds |-> Absent]}, "add-task")

\* The collection of AllTodo on the contacts page and on the login page.
InitContacts == InitWith(AllTodo, "contacts")

InitLogin == InitWith(AllTodo, "login")

\* A collection of one document, on the add-task page.
InitRoutes ==
  InitWith({[i \in TaskIds |-> IF i = 1 THEN TaskDoc("todo", FALSE, "medium", Some(<<>>))
                                ELSE Absent]}, "add-task")

\* The collection of AllTodo with every document but the first soft-deleted.
InitOne == InitWith({[i \in TaskIds |-> TaskDoc("todo", i > 1, "medium", Some(<<>>))]}, "board")

\* The two pages that read the tasks collection: the board and the dashboard,
\* each constructed with its ngOnInit not yet run.
InitDashboard == InitLoad \/ InitWith([TaskIds -> AnyDoc], "summary")

\* The load of the board and of the dashboard (both revisions), from any
\* remote collection, the user going from one page to the other.
NextLoad ==
  \/ loadData
  \/ \E ok \in BOOLEAN : loadTasks_settled(ok)
  \/ \E ok \in BOOLEAN : loadContacts_settled(ok)
  \/ SummaryComponent_ngOnInit
  \/ \E read \in {"tasks", "contacts"}, ok \in BOOLEAN : loadDashboardData_settled(read, ok)
  \/ \E read \in {"tasks", "contacts"}, ok \in BOOLEAN :
       loadDashboardData_unfiltered_settled(read, ok)
  \/ \E path \in {"board", "summary"} : navigate(path)
  \/ Router_activated(TRUE)

SpecLoad == InitDashboard /\ [][NextLoad]_vars

Load ==
  \/ loadData
  \/ \E ok \in BOOLEAN : loadTasks_settled(ok)
  \/ \E ok \in BOOLEAN : loadContacts_settled(ok)

DragAndDrop ==
  \/ \E c \in 1..4, i \in Indices : onDragStarted(ColumnContainers[c], i)
  \/ \E c \in 1..4, k \in Indices : onTaskDrop(ColumnContainers[c], k)
  \/ \E k \in Indices : onTaskDrop(OtherContainer, k)
  \/ \E n \in 1..MaxPending, ok \in BOOLEAN : onTaskDrop_settled(n, ok)

MobileMove ==
  \/ \E task \in TaskIds, s \in StatusSet : moveTaskToStatus(task, s)
  \/ \E n \in 1..MaxPending, ok \in BOOLEAN : moveTaskToStatus_settled(n, ok)

Detail ==
  \/ \E task \in TaskIds : openTaskDetail(task)
  \/ closeTaskDetail

Toggle ==
  \/ \E i \in 0..(MaxSubtasks - 1) : toggleSubtask(i)
  \/ \E n \in 1..MaxPending, ok \in BOOLEAN : toggleSubtask_settled(n, ok)

Delete ==
  \/ \E confirmed \in BOOLEAN : deleteTask(confirmed)
  \/ \E n \in 1..MaxPending, ok \in BOOLEAN : deleteTask_settled(n, ok)

EditSession ==
  \/ startEditMode
  \/ cancelEditMode
  \/ saveEditedTask
  \/ \E n \in 1..MaxPending, ok \in BOOLEAN : saveEditedTask_settled(n, ok)

\* The four handlers that change the arrays of the edit buffer.
BufferMutation ==
  \/ addSubtaskToEdit
  \/ \E i \in 0..(MaxSubtasks - 1) : removeSubtaskFromEdit(i)
  \/ \E c \in Contacts : removeAssignedContactFromEdit(c)
  \/ \E c \in Contacts : toggleEditContactSelection(c)

FormInput == \E f \in DOMAIN FormInputs : \E v \in FormInputs[f] : editFormInput(f, v)

\* Drag and drop and mobile moves on a board of MaxTasks cards.
NextDrop == Load \/ DragAndDrop \/ MobileMove

SpecDrop == InitBoard /\ [][NextDrop]_vars

\* The add-task form with its subtask list: the handlers of the list, the
\* three required fields filled in, clearForm, and onSubmit with its insert
\* succeeding.
NextSubtasks ==
  \/ \E v \in SubtaskInputs : newSubtaskInput(v)
  \/ clearSubtaskInput
  \/ addSubtask
  \/ \E v \in SubtaskInputs : addSubtaskFromInput(v)
  \/ \E i \in 0..(MaxFormSubtasks - 1) : startEditSubtask(i)
  \/ \E v \in SubtaskInputs : editSubtaskInput(v)
  \/ confirmEditSubtask
  \/ cancelEditSubtask
  \/ \E i \in 0..(MaxFormSubtasks - 1) : removeSubtask(i)
  \/ clearForm
  \/ \E f \in DOMAIN AddTaskInputs : addTaskInput(f, <<"a">>)
  \/ onSubmit
  \/ \E n \in 1..MaxPending : onSubmit_settled(n, TRUE)

SpecSubtasks == InitAddTask /\ [][NextSubtasks]_vars

\* The contacts page once ngOnInit has loaded the list: what the read of
\* loadContacts leaves when it resolves in a collection nothing has written to.
InitContactsLoaded ==
  InitAt(AllTodo, "contacts",
         [ContactsConstructed EXCEPT !.read = "resolved", !.contacts = StoredContacts])

\* The loaded contacts page: selection, the add overlay and the edit overlay
\* with their inputs, and the two writes with either outcome.
NextContacts ==
  \/ \E k \in 1..MaxContacts : showContactDetail(k)
  \/ closeContactDetail
  \/ openAddContact
  \/ closeAddContactOverlay
  \/ \E f \in DOMAIN ContactInputs : \E v \in ContactInputs[f] : contactInput(f, v)
  \/ addContact
  \/ \E n \in 1..MaxPending, ok \in BOOLEAN : addContact_settled(n, ok)
  \/ editContact
  \/ closeEditContactOverlay
  \/ saveEditContact
  \/ \E n \in 1..MaxPending, ok \in BOOLEAN : saveEditContact_settled(n, ok)

SpecContacts == InitContactsLoaded /\ [][NextContacts]_vars

\* The contacts page from its construction: the read of ngOnInit settling at
\* any time, every handler, deleteContact included, and the three writes with
\* either outcome; two addresses are typed.
NextContactsPage ==
  \/ ContactsComponent_ngOnInit
  \/ \E ok \in BOOLEAN : loadContacts(ok)
  \/ \E k \in 1..MaxContacts : showContactDetail(k)
  \/ closeContactDetail
  \/ openAddContact
  \/ closeAddContactOverlay
  \/ \E f \in DOMAIN ContactInputs :
       \E v \in ContactInputs[f] \cap {<<"a">>, <<"a", "@", "b", ".", "c">>,
                                       <<"x", "@", "b", ".", "c">>} :
         contactInput(f, v)
  \/ addContact
  \/ \E n \in 1..MaxPending, ok \in BOOLEAN : addContact_settled(n, ok)
  \/ editContact
  \/ closeEditContactOverlay
  \/ saveEditContact
  \/ \E n \in 1..MaxPending, ok \in BOOLEAN : saveEditContact_settled(n, ok)
  \/ \E confirmed \in BOOLEAN : deleteContact(confirmed)
  \/ \E n \in 1..MaxPending, ok \in BOOLEAN : deleteContact_settled(n, ok)

SpecContactsPage == InitContacts /\ [][NextContactsPage]_vars

\* The detail view when no remote call rejects: both reads of loadData succeed
\* and every write in flight resolves.
NextResolved ==
  \/ loadData
  \/ loadTasks_settled(TRUE)
  \/ loadContacts_settled(TRUE)
  \/ Detail
  \/ \E i \in 0..(MaxSubtasks - 1) : toggleSubtask(i)
  \/ \E n \in 1..MaxPending : toggleSubtask_settled(n, TRUE)
  \/ startEditMode
  \/ cancelEditMode
  \/ saveEditedTask
  \/ \E n \in 1..MaxPending : saveEditedTask_settled(n, TRUE)
  \/ \E confirmed \in BOOLEAN : deleteTask(confirmed)
  \/ \E n \in 1..MaxPending : deleteTask_settled(n, TRUE)

SpecResolved == InitOne /\ [][NextResolved]_vars

\* Drag and drop and mobile moves when every status write succeeds and the
\* store applies the writes in the order they were issued: only the oldest
\* write in flight settles, and it resolves.
SettleInOrder == onTaskDrop_settled(1, TRUE) \/ moveTaskToStatus_settled(1, TRUE)

NextInOrder ==
  \/ Load
  \/ \E c \in 1..4, i \in Indices : onDragStarted(ColumnContainers[c], i)
  \/ \E c \in 1..4, k \in Indices : onTaskDrop(ColumnContainers[c], k)
  \/ \E task \in TaskIds, s \in StatusSet : moveTaskToStatus(task, s)
  \/ SettleInOrder

SpecInOrder == InitBoard /\ [][NextInOrder]_vars

\* Every handler that reads or writes allTasks or a column, on a board of one
\* card, between the todo column and the done column, every remote call
\* succeeding or not.
NextBoard ==
  \/ Load
  \/ \E c \in {1, 4}, i \in Indices : onDragStarted(ColumnContainers[c], i)
  \/ \E c \in {1, 4}, k \in Indices : onTaskDrop(ColumnContainers[c], k)
  \/ \E k \in Indices : onTaskDrop(OtherContainer, k)
  \/ \E n \in 1..MaxPending, ok \in BOOLEAN : onTaskDrop_settled(n, ok)
  \/ \E task \in TaskIds, s \in {"todo", "done"} : moveTaskToStatus(task, s)
  \/ \E n \in 1..MaxPending, ok \in BOOLEAN : moveTaskToStatus_settled(n, ok)
  \/ Detail
  \/ Toggle
  \/ Delete
  \/ EditSession

SpecBoard == InitOne /\ [][NextBoard]_vars

\* The same handlers on a board of MaxTasks cards, between the todo column
\* and the done column: the load, drags and drops (also with the detail view
\* open, and while a write of the detail view is in flight), mobile moves to
\* done, the edit session of the first card with its title retyped, toggles
\* and deletes, every remote call succeeding.
NextPartition ==
  \/ loadData
  \/ loadTasks_settled(TRUE)
  \/ loadContacts_settled(TRUE)
  \/ \E c \in {1, 4}, i \in 0..(MaxTasks - 1) : onDragStarted(ColumnContainers[c], i)
  \/ \E c \in {1, 4} : onTaskDrop(ColumnContainers[c], 0)
  \/ \E n \in 1..MaxPending : onTaskDrop_settled(n, TRUE)
  \/ \E task \in TaskIds : moveTaskToStatus(task, "done")
  \/ \E n \in 1..MaxPending : moveTaskToStatus_settled(n, TRUE)
  \/ openTaskDetail(1)
  \/ startEditMode
  \/ editFormInput("title", <<"r">>)
  \/ saveEditedTask
  \/ \E n \in 1..MaxPending : saveEditedTask_settled(n, TRUE)
  \/ toggleSubtask(0)
  \/ \E n \in 1..MaxPending : toggleSubtask_settled(n, TRUE)
  \/ deleteTask(TRUE)
  \/ \E n \in 1..MaxPending : deleteTask_settled(n, TRUE)

SpecPartition == InitBoard /\ [][NextPartition]_vars

\* The edit session on a board of MaxTasks cards, either of them opened, with
\* the two handlers of the buffer's subtask list and the save succeeding or
\* not.
NextEdit ==
  \/ loadData
  \/ loadTasks_settled(TRUE)
  \/ loadContacts_settled(TRUE)
  \/ Detail
  \/ EditSession
  \/ addSubtaskToEdit
  \/ \E i \in 0..(MaxSubtasks - 1) : removeSubtaskFromEdit(i)

SpecEdit == InitBoard /\ [][NextEdit]_vars

\* The edit session of the first card with every handler that changes an
\* array of the buffer, cancelled or saved, the save succeeding or not.
NextCancel ==
  \/ loadData
  \/ loadTasks_settled(TRUE)
  \/ loadContacts_settled(TRUE)
  \/ openTaskDetail(1)
  \/ closeTaskDetail
  \/ EditSession
  \/ BufferMutation

SpecCancel == InitBoard /\ [][NextCancel]_vars

\* The edit form of one card: its inputs cleared or retyped and the save,
\* every remote call succeeding.
NextSave ==
  \/ loadData
  \/ loadTasks_settled(TRUE)
  \/ loadContacts_settled(TRUE)
  \/ Detail
  \/ startEditMode
  \/ saveEditedTask
  \/ \E n \in 1..MaxPending : saveEditedTask_settled(n, TRUE)
  \/ FormInput

SpecSave == InitOne /\ [][NextSave]_vars

\* The add-task page on its own.
NextAdd ==
  \/ \E f \in DOMAIN AddTaskInputs : \E v \in AddTaskInputs[f] : addTaskInput(f, v)
  \/ \E p \in {"urgent", "medium"} : setPriority(p)
  \/ \E c \in Contacts : toggleContactSelection(c)
  \/ \E v \in {t \in Texts : Len(t) <= 1} : selectCategory(v)
  \/ onSubmit
  \/ \E n \in 1..MaxPending, ok \in BOOLEAN : onSubmit_settled(n, ok)

SpecAdd == InitAddTask /\ [][NextAdd]_vars

\* Tasks created on the add-task page, by either revision of onSubmit, and
\* the board that loads them: the redirect of onSubmit, the navbar, the
\* activation of the route and the two reads of the BoardComponent it creates.
NextCreate ==
  \/ \E f \in DOMAIN AddTaskInputs : addTaskInput(f, <<"a">>)
  \/ \E p \in {"urgent", "medium"} : setPriority(p)
  \/ onSubmit
  \/ onSubmit_older
  \/ \E n \in 1..MaxPending, ok \in BOOLEAN : onSubmit_settled(n, ok)
  \/ \E n \in 1..MaxPending, ok \in BOOLEAN : onSubmit_older_settled(n, ok)
  \/ onSubmit_timeout
  \/ onSubmit_timeout_detached
  \/ \E path \in {"add-task", "board"} : navigate(path)
  \/ Router_activated(TRUE)
  \/ \E ok \in BOOLEAN : loadTasks_settled(ok)
  \/ loadContacts_settled(TRUE)
  \/ \E n \in 1..MaxPending, ok \in BOOLEAN : orphan_settled(n, ok)
  \/ AuthService_constructor(FALSE, TRUE)
  \/ \E n \in 1..MaxPending : unloaded_settled(n, TRUE)

SpecCreate == InitAddTask /\ [][NextCreate]_vars

\* Deletion from the detail view, with mobile moves, on a board of MaxTasks cards.
NextDelete == Load \/ Detail \/ Delete \/ MobileMove

SpecDelete == InitBoard /\ [][NextDelete]_vars

\* What completedSubtasks of a stored document may hold: nothing at all (a
\* document of the older form), or texts toggleSubtask has pushed, each once
\* as it pushes a text only where indexOf finds none: the text of the subtask
\* and the text of a subtask an edit-save has taken away since.
CompletedContents ==
  {None} \cup
  {Some(c) : c \in {q \in UNION {[1..n -> {<<"s">>, <<"o">>}] : n \in 0..MaxCompleted} :
                       \A j, k \in DOMAIN q : j # k => q[j] # q[k]}}

\* One live card whose document holds any of these.
InitToggle ==
  InitWith({[i \in TaskIds |-> TaskDoc("todo", i > 1, "medium", c)] : c \in CompletedContents},
           "board")

\* The detail view with its subtask checkboxes, on a board of one card.
NextToggle == Load \/ Detail \/ Toggle

SpecToggle == InitToggle /\ [][NextToggle]_vars

\* The guard of the protected routes: every path the router knows and one it
\* does not, for a user and the guest signing in and out, and the reload.
NextGuard ==
  \/ login("user@join-demo.com", TRUE)
  \/ loginAsGuest
  \/ \E n \in 1..MaxPending : login_settled(n, TRUE, NoError)
  \/ \E n \in 1..MaxPending : loginAsGuest_settled(n, TRUE)
  \/ logout
  \/ \E n \in 1..MaxPending, ok \in BOOLEAN : logout_settled(n, ok)
  \/ \E path \in ProtectedRoutes \cup PublicRoutes \cup {OtherPath} : navigate(path)
  \/ Router_activated(TRUE)
  \/ \E newSession \in BOOLEAN, restored \in BOOLEAN :
       AuthService_constructor(newSession, restored)

SpecGuard == InitLogin /\ [][NextGuard]_vars

\* Login, logout, reload and the navigation between the login page and the
\* board, the lazy import of a route failing or not; no handler of a page is
\* called.
NextAuth ==
  \/ \E email \in Users, filled \in BOOLEAN : login(email, filled)
  \/ loginAsGuest
  \/ \E n \in 1..MaxPending : login_settled(n, TRUE, NoError)
  \/ \E n \in 1..MaxPending, err \in LoginErrors : login_settled(n, FALSE, err)
  \/ \E n \in 1..MaxPending, ok \in BOOLEAN : loginAsGuest_settled(n, ok)
  \/ logout
  \/ \E n \in 1..MaxPending, ok \in BOOLEAN : logout_settled(n, ok)
  \/ \E path \in {"board", "login", OtherPath} : navigate(path)
  \/ \E ok \in BOOLEAN : Router_activated(ok)
  \/ \E newSession \in BOOLEAN, restored \in BOOLEAN :
       AuthService_constructor(newSession, restored)
  \/ enableAdminMode
  \/ disableAdminMode

SpecAuth == InitLogin /\ [][NextAuth]_vars

\* A signed-in user going between the add-task page, the board and the
\* contacts page while calls of the pages are in flight: one write of each
\* page, the reads of the components the outlet creates, the redirect timers,
\* and the reload.
NextRoutes ==
  \/ \E path \in {"add-task", "board", "contacts"} : navigate(path)
  \/ Router_activated(TRUE)
  \/ \E newSession \in BOOLEAN : AuthService_constructor(newSession, TRUE)
  \/ \E n \in 1..MaxPending, ok \in BOOLEAN : unloaded_settled(n, ok)
  \/ \E f \in DOMAIN AddTaskInputs : addTaskInput(f, <<"a">>)
  \/ onSubmit
  \/ \E n \in 1..MaxPending, ok \in BOOLEAN : onSubmit_settled(n, ok)
  \/ onSubmit_timeout
  \/ onSubmit_timeout_detached
  \/ loadTasks_settled(TRUE)
  \/ loadContacts_settled(TRUE)
  \/ moveTaskToStatus(1, "done")
  \/ \E n \in 1..MaxPending, ok \in BOOLEAN : moveTaskToStatus_settled(n, ok)
  \/ loadContacts(TRUE)
  \/ showContactDetail(1)
  \/ deleteContact(TRUE)
  \/ \E n \in 1..MaxPending, ok \in BOOLEAN : deleteContact_settled(n, ok)
  \/ \E n \in 1..MaxPending, ok \in BOOLEAN : orphan_settled(n, ok)

SpecRoutes == InitRoutes /\ [][NextRoutes]_vars

\* Registration beside login and logout: the register page, the pages its
\* redirect and the guard lead to, and the reload.
NextRegister ==
  \/ \E email \in RegisterEmails, matching \in BOOLEAN : register(email, matching)
  \/ \E n \in 1..MaxPending : register_settled(n, TRUE, Undefined)
  \/ \E n \in 1..MaxPending, code \in RegisterErrorCodes : register_settled(n, FALSE, code)
  \/ register_timeout
  \/ \E filled \in BOOLEAN : login("user@join-demo.com", filled)
  \/ \E n \in 1..MaxPending : login_settled(n, TRUE, NoError)
  \/ logout
  \/ \E n \in 1..MaxPending, ok \in BOOLEAN : logout_settled(n, ok)
  \/ \E path \in {"register", "login", "summary", "board"} : navigate(path)
  \/ Router_activated(TRUE)
  \/ \E newSession \in BOOLEAN, restored \in BOOLEAN :
       AuthService_constructor(newSession, restored)

SpecRegister == InitLogin /\ [][NextRegister]_vars


\* ------------------------------------------------------------- properties

Elems(seq) == {seq[k] : k \in DOMAIN seq}

\* The places of task i on the board: <<column, position>>.
Places(i) == {<<s, k>> \in StatusSet \X (1..MaxTasks) :
                k \in DOMAIN columns[s] /\ columns[s][k] = i}

\* An object with its arrays read through the heap.
Value(o) ==
  IF ~HasId(o) THEN o
  ELSE [o EXCEPT !.subtasks = arrays[@],
                 !.completedSubtasks = IF @ = 0 THEN None ELSE Some(arrays[@]),
                 !.assignedTo = arrays[@]]

\* C1: once loadData has completed, every task of allTasks occurs in exactly
\* one of the four columns, also when its document has no status.
C1_LoadedTaskInExactlyOneColumn ==
  ~isLoading => \A i \in Elems(allTasks) : Cardinality(Places(i)) = 1

\* A load of MaxTasks live documents, one of them without a status, that fills
\* more than one column.
C1_Witness ==
  /\ ~isLoading /\ Len(allTasks) = MaxTasks
  /\ \E i \in TaskIds : remote[i].status = Undefined
  /\ Cardinality({s \in StatusSet : columns[s] # <<>>}) > 1

\* Each column holds exactly the tasks of allTasks whose status is the
\* column's status, each of them once.
ColumnsPartitionAllTasks ==
  \A s \in StatusSet :
    /\ Elems(columns[s]) = {i \in Elems(allTasks) : tasks[i].status = s}
    /\ Cardinality(Elems(columns[s])) = Len(columns[s])

\* C2 as stated: after any sequence of board operations
\* (loads, drops, mobile moves, edit-saves, toggles, deletes), in every state
\* between two handler steps, each column holds exactly the tasks of allTasks
\* whose status is the column's status, each of them once. It fails while
\* loadData awaits: loadTasks has assigned allTasks (line 259) and the columns
\* are sorted only after the contact read has settled too (line 214).
C2_ColumnsPartitionAllTasks_AsStated == ColumnsPartitionAllTasks

\* C2, amended: in every state between two handler steps in which no read of a
\* running loadData is pending, each column holds exactly the tasks of
\* allTasks whose status is the column's status, each of them once; writes may
\* be in flight, a drag in progress and the detail view open.
C2_ColumnsPartitionAllTasks ==
  "pending" \notin {reads.contacts, reads.tasks} => ColumnsPartitionAllTasks

\* All writes have settled without an error and the card stands in a column
\* other than the one its document names (two status writes of the card were
\* in flight together and the handlers that issued them have all run).
C2_Witness ==
  /\ pending = <<>> /\ error = "" /\ ~isLoading
  /\ \E i \in Elems(allTasks) : tasks[i].status # remote[i].status

\* loadDashboardData has run to its end: both reads it awaits have resolved
\* and the statistics are calculated.
DashboardLoaded == summary.reads = [contacts |-> "resolved", tasks |-> "resolved"]

\* C3: a soft-deleted document is on the board in no column and counts in no
\* statistic of the dashboard.
C3_DeletedNeitherShownNorCounted ==
  LET live == {i \in TaskIds : ~remote[i].deleted}
      n(S) == Cardinality(S)
  IN  /\ ~isLoading =>
           \A i \in TaskIds : remote[i].deleted =>
             i \notin Elems(allTasks) /\ Places(i) = {}
      /\ DashboardLoaded =>
           /\ summary.stats.totalTasks = n(live)
           /\ summary.stats.todoTasks = n({i \in live : remote[i].status = "todo"})
           /\ summary.stats.inProgressTasks = n({i \in live : remote[i].status = "inprogress"})
           /\ summary.stats.awaitFeedbackTasks =
                n({i \in live : remote[i].status = "awaitfeedback"})
           /\ summary.stats.doneTasks = n({i \in live : remote[i].status = "done"})
           /\ summary.stats.urgentTasks = n({i \in live : remote[i].priority = "urgent"})

\* A drop of the dragged card on column c at index k, from another column, the
\* card still being at the index the drag started from.
CrossColumnDrop(c, k) ==
  /\ onTaskDrop(ColumnContainers[c], k)
  /\ drag.container # ColumnContainers[c]
  /\ drag.index < Len(ContainerData(drag.container))
  /\ k <= Len(columns[Statuses[c]])

Dragged == ContainerData(drag.container)[drag.index + 1]

\* C4: after a drop on another column the dropped task has the status of that
\* column, is gone from the column it came from and stands in the destination
\* column at the index of the drop.
C4_CrossColumnDropMovesTask ==
  [][\A c \in 1..4, k \in Indices :
       CrossColumnDrop(c, k) =>
         /\ tasks'[Dragged].status = Statuses[c]
         /\ Dragged \notin Elems(columns'[BoundColumn(drag.container)])
         /\ columns'[Statuses[c]][k + 1] = Dragged]_vars

\* A card dropped behind the other card of a column: its status write is in
\* flight, it has the column's status and stands at index 1.
C4_Witness ==
  \E n \in DOMAIN pending :
    /\ pending[n].kind = "drop"
    /\ tasks[pending[n].id].status = pending[n].payload.status
    /\ Len(columns[pending[n].payload.status]) = 2
    /\ columns[pending[n].payload.status][2] = pending[n].id

\* C5: a drop on another column issues exactly one remote update; it is for the
\* dropped task and its payload has the one field status, set to the status of
\* the destination column.
C5_CrossColumnDropWritesStatusOnly ==
  [][\A c \in 1..4, k \in Indices :
       CrossColumnDrop(c, k) =>
         /\ Len(pending') = Len(pending) + 1
         /\ SubSeq(pending', 1, Len(pending)) = pending
         /\ LET w == pending'[Len(pending')]
            IN  /\ w.id = Dragged
                /\ DOMAIN w.payload = {"status"}
                /\ w.payload.status = Statuses[c]]_vars

\* The status write of a drop is in flight and the document still has the
\* status of the column the card came from.
C5_Witness ==
  \E n \in DOMAIN pending :
    /\ pending[n].kind = "drop"
    /\ remote[pending[n].id].status # pending[n].payload.status

\* How often x occurs in seq.
Count(seq, x) == Cardinality({k \in DOMAIN seq : seq[k] = x})

\* C6: a drop on the column the card came from reorders that column and does
\* nothing else: the column keeps its elements, the other columns, allTasks and
\* every task object are unchanged, and no remote update is issued.
C6_SameColumnDropOnlyReorders ==
  [][\A c \in 1..4, k \in Indices :
       (onTaskDrop(ColumnContainers[c], k) /\ drag.container = ColumnContainers[c]) =>
         /\ \A s \in StatusSet \ {Statuses[c]} : columns'[s] = columns[s]
         /\ \A i \in TaskIds : Count(columns'[Statuses[c]], i) = Count(columns[Statuses[c]], i)
         /\ UNCHANGED <<allTasks, tasks, arrays, pending, remote, error>>]_vars

\* Both cards are in one column in the order opposite to that of allTasks, and
\* no write has been issued or is in flight.
C6_Witness ==
  /\ pending = <<>> /\ error = ""
  /\ \E s \in StatusSet :
       /\ Len(columns[s]) = 2
       /\ columns[s][1] = allTasks[2] /\ columns[s][2] = allTasks[1]
       /\ \A i \in TaskIds : remote[i].status = s

\* C7: no task is in two columns or twice in one, whatever drops were made:
\* also while status writes of earlier drops of the same task are in flight,
\* and also when a mobile move or an edit-save has completed and sorted the
\* columns again between the start of a drag and its drop.
C7_NoTaskInTwoColumns ==
  \A i \in TaskIds : Cardinality(Places(i)) <= 1

\* A card is being dragged out of the done column and the index of the drag
\* is one of that column no more, both cards being on the board: the write of
\* an edit-save was in flight when the drag started and has resolved since,
\* and the record it replaced, made from a buffer that still had the status
\* todo, was sorted into the todo column. (No other step takes a card out of
\* the done column during a drag: the mobile moves go to done, and a drop
\* ends the drag.) The drop that follows is made with that index.
C7_Witness ==
  /\ drag # NoDrag /\ drag.container = "done-list"
  /\ drag.index >= Len(columns["done"])
  /\ Len(allTasks) = MaxTasks
  /\ \E i \in Elems(columns["todo"]) : remote[i].status = "done"

\* The fields saveEditedTask writes.
EditableFields ==
  {"title", "description", "dueDate", "priority", "assignedTo", "category", "subtasks"}

Editable(o) == [f \in EditableFields |-> Value(o)[f]]

\* C8: a mutation of the edit buffer changes neither the selected task nor a
\* record of allTasks, and the editable fields of a record change only when a
\* save of that same record has succeeded remotely.
C8_EditBufferIsolated ==
  [][/\ BufferMutation =>
          /\ Value(selectedTask)' = Value(selectedTask)
          /\ \A i \in TaskIds : Value(tasks[i])' = Value(tasks[i])
     /\ \A i \in TaskIds :
          (tasks[i] # Null /\ tasks'[i] # Null /\ Editable(tasks[i])' # Editable(tasks[i])) =>
            \E n \in DOMAIN pending :
              /\ pending[n].kind = "save" /\ pending[n].id = i
              /\ saveEditedTask_settled(n, TRUE)]_vars

\* What cancelEditMode and the steps before it must leave alone.
EditFrame ==
  /\ Value(selectedTask)' = Value(selectedTask)
  /\ \A i \in TaskIds : Value(tasks[i])' = Value(tasks[i])
  /\ UNCHANGED <<allTasks, columns, pending, remote>>

\* C9: startEditMode, any mutation of the buffer and cancelEditMode leave the
\* selected task, every record of allTasks, the columns and the remote store
\* as they were, and cancelEditMode ends with isEditMode false and no buffer.
C9_CancelDiscardsBuffer ==
  [][/\ (startEditMode \/ BufferMutation) => EditFrame
     /\ cancelEditMode => (EditFrame /\ ~isEditMode' /\ editTask' = Null)]_vars

\* Edit mode with a buffer whose arrays differ from those of the selected task:
\* the state cancelEditMode discards.
C9_Witness ==
  /\ isEditMode /\ editTask # Null /\ selectedTask # Null
  /\ editTask.id = selectedTask.id
  /\ Value(editTask).subtasks # Value(selectedTask).subtasks
  /\ Value(editTask).assignedTo # Value(selectedTask).assignedTo

\* C10: saveEditedTask with an empty title, due date or category in the buffer
\* issues no remote update, reports an error and stays in edit mode with the
\* buffer as it is.
C10_SaveRequiresFields ==
  [][(saveEditedTask /\ (editTask.title = <<>> \/ editTask.dueDate = <<>>
                                              \/ editTask.category = <<>>)) =>
       /\ pending' = pending
       /\ error' # ""
       /\ isEditMode' /\ editTask' = editTask]_vars

\* Empty or only blanks.
Blank(t) == \A k \in DOMAIN t : t[k] = " "

FormFields ==
  {"title", "description", "dueDate", "priority", "assignedTo", "category", "subtasks"}

\* C11: onSubmit with a title, due date or category that is empty or only
\* blanks issues no remote insert, sets an error message and no success
\* message, and leaves every field of the form as it is.
C11_AddTaskRequiresFields ==
  [][(onSubmit /\ (Blank(form.title) \/ Blank(form.dueDate) \/ Blank(form.category))) =>
       /\ pending' = pending /\ remote' = remote
       /\ form'.error # "" /\ form'.success = ""
       /\ \A f \in FormFields : form'[f] = form[f]]_vars

\* A submit was refused for its category of one blank, the title being filled
\* in with a blank behind it; nothing is being written.
C11_Witness ==
  /\ form.error = ErrCategory
  /\ form.category = <<" ">> /\ form.title = <<"a", " ">> /\ form.dueDate = <<"a">>
  /\ pending = <<>> /\ Docs(remote) = <<>>

\* The fields an edit-save must not touch.
KeptFields == {"status", "completedSubtasks", "createdAt", "deleted"}

\* C12: saveEditedTask issues one update for the buffer's id whose payload has
\* exactly the seven editable fields with the buffer's values, and when it
\* resolves the document keeps its status, completedSubtasks, createdAt and
\* deleted, and no other document changes.
C12_SaveWritesEditableFieldsOnly ==
  [][/\ saveEditedTask =>
          /\ Len(pending') = Len(pending) + 1
          /\ SubSeq(pending', 1, Len(pending)) = pending
          /\ LET w == pending'[Len(pending')]
             IN  /\ w.id = editTask.id
                 /\ DOMAIN w.payload = EditableFields
                 /\ \A f \in EditableFields : w.payload[f] = Value(editTask)[f]
     /\ \A n \in DOMAIN pending :
          (pending[n].kind = "save" /\ saveEditedTask_settled(n, TRUE)) =>
            /\ \A f \in KeptFields : remote'[pending[n].id][f] = remote[pending[n].id][f]
            /\ \A i \in TaskIds \ {pending[n].id} : remote'[i] = remote[i]]_vars

\* The write of an edit-save is in flight while the buffer it was made from has
\* a status other than the document's.
C12_Witness ==
  \E n \in DOMAIN pending :
    /\ pending[n].kind = "save"
    /\ editTask # Null /\ editTask.id = pending[n].id
    /\ editTask.status # remote[pending[n].id].status

\* The values completedSubtasks of an object holds (none when it is missing).
CompletedSet(o) ==
  IF o.completedSubtasks = 0 THEN {} ELSE Elems(arrays[o.completedSubtasks])

\* C13: toggleSubtask(i) adds the text of subtask i to completedSubtasks of the
\* selected task when it is absent and removes it when it is present, for
\* every content of completedSubtasks the program stores (none, or texts each
\* once); two toggles of the same subtask then give back the set of values
\* they started from.
C13_ToggleFlipsMembership ==
  [][\A i \in 0..(MaxSubtasks - 1) :
       toggleSubtask(i) =>
         LET text == arrays[selectedTask.subtasks][i + 1]
         IN  CompletedSet(selectedTask)' =
               IF text \in CompletedSet(selectedTask)
               THEN CompletedSet(selectedTask) \ {text}
               ELSE CompletedSet(selectedTask) \cup {text}]_vars

\* A toggle has taken the text of the subtask out of a completedSubtasks that
\* held it behind the text of another subtask: the selected task keeps the
\* other text alone, the write of that value is in flight and the document
\* still holds both.
C13_Witness ==
  /\ selectedTask # Null
  /\ Value(selectedTask).completedSubtasks = Some(<< <<"o">> >>)
  /\ Value(selectedTask).subtasks = << <<"s">> >>
  /\ \E n \in DOMAIN pending :
       /\ pending[n].kind = "toggle" /\ pending[n].id = selectedTask.id
       /\ pending[n].payload.completedSubtasks = << <<"o">> >>
       /\ remote[pending[n].id].completedSubtasks = Some(<< <<"o">>, <<"s">> >>)

\* C14: deleteTask with the confirmation declined issues no remote call, sets
\* no error message and leaves allTasks, the columns, the task objects and the
\* detail and edit state as they are.
C14_DeclinedDeleteChangesNothing ==
  [][deleteTask(FALSE) =>
       UNCHANGED <<pending, remote, error, allTasks, columns, tasks, arrays,
                   selectedTask, showTaskDetail, isEditMode, editTask>>]_vars

\* The detail view shows a card of the board in view mode and nothing is being
\* written: the state in which the confirmation is asked and declined.
C14_Witness ==
  /\ showTaskDetail /\ ~isEditMode /\ selectedTask # Null
  /\ selectedTask.id \in Elems(allTasks)
  /\ pending = <<>> /\ error = ""

\* The delete writes in flight.
Deletes(p) == {n \in DOMAIN p : p[n].kind = "delete"}

\* C15: a delete write is issued by a confirmed deleteTask only, for the
\* selected task and with the one field deleted = true; when it resolves the
\* task is in allTasks and in the columns no more, its document is marked
\* deleted and the detail view is closed; when it rejects allTasks and the
\* columns stay as they are and the error message is set.
C15_DeleteAfterConfirmation ==
  [][/\ Cardinality(Deletes(pending')) > Cardinality(Deletes(pending)) => deleteTask(TRUE)
     /\ deleteTask(TRUE) =>
          /\ Len(pending') = Len(pending) + 1
          /\ SubSeq(pending', 1, Len(pending)) = pending
          /\ pending'[Len(pending')].id = selectedTask.id
          /\ pending'[Len(pending')].payload = [deleted |-> TRUE]
     /\ \A n \in Deletes(pending) :
          /\ deleteTask_settled(n, TRUE) =>
               /\ pending[n].id \notin Elems(allTasks')
               /\ \A s \in StatusSet : pending[n].id \notin Elems(columns'[s])
               /\ remote'[pending[n].id].deleted
               /\ ~showTaskDetail' /\ selectedTask' = Null
          /\ deleteTask_settled(n, FALSE) =>
               /\ error' = ErrDelete
               /\ UNCHANGED <<allTasks, columns, tasks, remote>>]_vars

\* One card has been deleted and is gone from the board; the delete of the
\* other was rejected, and that card is still there.
C15_Witness ==
  /\ error = ErrDelete /\ pending = <<>> /\ ~showTaskDetail
  /\ \E i \in TaskIds :
       /\ remote[i].deleted /\ i \notin Elems(allTasks)
       /\ \A s \in StatusSet : i \notin Elems(columns[s])
  /\ \E j \in Elems(allTasks) : ~remote[j].deleted /\ Cardinality(Places(j)) = 1

\* The step in which the later of the two reads of loadData settles.
LoadEnds ==
  /\ "pending" \in {reads.contacts, reads.tasks}
  /\ "pending" \notin {reads'.contacts, reads'.tasks}

\* C16: when the read of the contacts or the read of the tasks rejects, loadData
\* ends with a non-empty error message and isLoading false.
C16_LoadFailureIsReported ==
  [][(/\ LoadEnds
      /\ "rejected" \in {reads'.contacts, reads'.tasks})
       => (error' # "" /\ ~isLoading')]_vars

\* C17: a load whose task read succeeds stores the documents that are not
\* deleted and no others; a task whose document has no status has the status
\* todo and stands in the todo column, and every other task has the status of
\* its document and stands in that column.
C17_LoadDefaultsStatusAndDropsDeleted ==
  [][\A i \in TaskIds :
       LET status == IF remote[i].status = Undefined THEN "todo"
                     ELSE remote[i].status
       IN  /\ loadTasks_settled(TRUE) =>
                (IF remote[i].deleted
                 THEN i \notin Elems(allTasks') /\ tasks'[i] = Null
                 ELSE i \in Elems(allTasks') /\ tasks'[i].status = status)
           /\ (LoadEnds /\ reads'.tasks = "resolved" /\ ~remote[i].deleted) =>
                (i \in Elems(columns'[status]))]_vars

\* Loaded: a document without a status stands in the todo column, and a
\* deleted document with the status done is not on the board.
C17_Witness ==
  /\ ~isLoading
  /\ \E i \in TaskIds :
       /\ remote[i].status = Undefined /\ ~remote[i].deleted
       /\ i \in Elems(columns["todo"]) /\ tasks[i].status = "todo"
  /\ \E j \in TaskIds :
       /\ remote[j].deleted /\ remote[j].status = "done"
       /\ j \notin Elems(allTasks) /\ columns["done"] = <<>>

\* C18: when the status write of a cross-column drop rejects, the error message
\* of the board is set and nothing local is taken back: the columns, the task
\* objects and allTasks are as the drop left them, and the document keeps the
\* status it had.
C18_RejectedDropIsNotReverted ==
  [][\A n \in DOMAIN pending :
       (pending[n].kind = "drop" /\ onTaskDrop_settled(n, FALSE)) =>
         /\ error' = ErrMove
         /\ UNCHANGED <<columns, tasks, allTasks, remote>>]_vars

\* No write has ever succeeded (every document still has the status todo) and
\* none is in flight, the error is shown, and a card stands in another column
\* under that column's status: its drop was rejected and not taken back.
C18_Witness ==
  /\ error = ErrMove /\ pending = <<>>
  /\ \A j \in TaskIds : remote[j].status = "todo"
  /\ \E i \in Elems(allTasks) :
       /\ tasks[i].status # "todo"
       /\ i \in Elems(columns[tasks[i].status])

\* C19: the step of a drop on another column itself puts the card in the
\* destination column under the destination status, while the document is
\* still unchanged and the status write is in flight; the step ends the drag
\* and sets nothing that would keep further handlers from running.
C19_DropIsOptimistic ==
  [][\A c \in 1..4, k \in Indices :
       CrossColumnDrop(c, k) =>
         /\ tasks'[Dragged].status = Statuses[c]
         /\ Dragged \in Elems(columns'[Statuses[c]])
         /\ remote' = remote
         /\ Len(pending') = Len(pending) + 1
         /\ pending'[Len(pending')].kind = "drop"
         /\ drag' = NoDrag /\ isLoading' = isLoading]_vars

\* Two cards have been dropped on other columns one after the other; both
\* stand there under the new status while both writes are still in flight and
\* both documents say todo.
C19_Witness ==
  /\ Len(pending) = 2
  /\ pending[1].kind = "drop" /\ pending[2].kind = "drop"
  /\ pending[1].id # pending[2].id
  /\ \A n \in 1..2 :
       /\ tasks[pending[n].id].status = pending[n].payload.status
       /\ pending[n].id \in Elems(columns[pending[n].payload.status])
       /\ remote[pending[n].id].status = "todo"
       /\ pending[n].payload.status # "todo"

\* C20: no exception leaves a handler of the board: whichever remote call
\* rejects (the reads of the load, the status write of a drop or of a mobile
\* move, the writes of an edit-save, a subtask toggle or a delete), a catch
\* block or a .catch of the operation that made it ends the rejection, also
\* where updateTaskStatus has caught it first and thrown it again.
C20_RejectionsAreCaught == ~uncaught

\* The write of a subtask toggle has settled after the detail view was closed
\* and its handler has ended in its catch block; nothing is in flight.
C20_Witness ==
  /\ error = ErrSubtask /\ selectedTask = Null /\ ~showTaskDetail
  /\ pending = <<>> /\ ~uncaught

\* A step of the drag-and-drop board that ends with sortTasksIntoColumns: the
\* step that ends the load, and a mobile move whose write has succeeded.
Repartition ==
  \/ LoadEnds
  \/ \E n \in DOMAIN pending : moveTaskToStatus_settled(n, TRUE)

\* col holds the tasks of `all` with status s, each once, in the order of `all`.
InFlatOrder(col, all, t, s) ==
  /\ Elems(col) = {i \in Elems(all) : t[i].status = s}
  /\ \A j, k \in DOMAIN col : j < k => indexOf(all, col[j]) < indexOf(all, col[k])

\* C21: every step that sorts the tasks into the columns leaves each column as
\* the tasks of allTasks with the column's status in the order they have in
\* allTasks, whatever order a drop inside a column had given the column.
C21_RepartitionRestoresFlatOrder ==
  [][Repartition =>
       \A s \in StatusSet : InFlatOrder(columns'[s], allTasks', tasks', s)]_vars

\* Both cards stand in one column in the order opposite to that of allTasks,
\* as drops have left them, and the write of a mobile move to that column is
\* in flight, whose success sorts the columns again and keeps both cards there.
C21_Witness ==
  /\ Len(allTasks) = 2
  /\ \E s \in StatusSet :
       /\ columns[s] = <<allTasks[2], allTasks[1]>>
       /\ \A i \in TaskIds : tasks[i].status = s
       /\ \E n \in DOMAIN pending : pending[n].kind = "move" /\ pending[n].payload.status = s

\* C22: a navigation to summary, add-task, board or contacts is let through
\* to that route exactly when the provider has a user signed in and the
\* manual-login flag is set, and in every other state the guard sends it to
\* login; the route that is activated is the one the navigation was left
\* with, and a protected route is activated only in a state where a user is
\* signed in and the flag is set.
C22_GuardRequiresUserAndManualLogin ==
  [][/\ \A path \in ProtectedRoutes :
          navigate(path) =>
            LET target == IF auth.currentUser # NoUser /\ auth.join_manual_login
                          THEN path ELSE "login"
            IN  auth'.navigation.target = IF target = auth.url THEN "none" ELSE target
     /\ Router_activated(TRUE) =>
          /\ auth'.url = auth.navigation.target
          /\ auth.navigation.target \in ProtectedRoutes =>
               (auth.currentUser # NoUser /\ auth.join_manual_login)]_vars

\* The board is shown: the provider has a user, the manual-login flag is set
\* in the service and in sessionStorage, and no call is in flight.
C22_Witness ==
  /\ auth.url = "board"
  /\ auth.currentUser # NoUser /\ auth.join_manual_login /\ auth.manualLoginSubject
  /\ pending = <<>>

\* C23: once loginAsGuest has signed the user in, isGuestUser() is true and
\* canModifyData() is true exactly when the admin mode is on; once login has
\* signed a user in (under an address that is not the guest's),
\* canModifyData() is true.
C23_GuestCannotModifyData ==
  [][\A n \in DOMAIN pending :
       /\ loginAsGuest_settled(n, TRUE) =>
            /\ isGuestUser(auth')
            /\ canModifyData(auth') <=> auth'.join_admin_mode
       /\ (login_settled(n, TRUE, NoError) /\ ~isGuestUser([auth EXCEPT !.currentUser = pending[n].email])) =>
            canModifyData(auth')]_vars

\* C24: when the sign-out of a logout has settled, resolved or rejected, the
\* manual-login flag is false in the service and gone from sessionStorage and
\* canAccessProtectedRoute() is false; and canAccessProtectedRoute() turns
\* true only by a login that has succeeded.
C24_LogoutClearsManualLogin ==
  [][/\ \A n \in DOMAIN pending, ok \in BOOLEAN :
          logout_settled(n, ok) =>
            /\ ~auth'.manualLoginSubject /\ ~auth'.join_manual_login
            /\ ~canAccessProtectedRoute(auth')
     /\ (~canAccessProtectedRoute(auth) /\ canAccessProtectedRoute(auth')) =>
          \E n \in DOMAIN pending :
            login_settled(n, TRUE, NoError) \/ loginAsGuest_settled(n, TRUE)]_vars

\* The card under the drag, when the index of the drag still is one of its column.
DragHolds == drag # NoDrag /\ drag.index < Len(ContainerData(drag.container))

\* C25: a drop on a list whose id is none of the four column lists changes the
\* status of no task and issues no remote write.
C25_UnknownContainerChangesNoStatus ==
  [][\A k \in Indices :
       (onTaskDrop(OtherContainer, k) /\ DragHolds) =>
         /\ \A i \in TaskIds : tasks[i] # Null => tasks'[i].status = tasks[i].status
         /\ pending' = pending /\ remote' = remote]_vars

\* A card is being dragged out of the column that holds both cards, nothing
\* being written: the state in which it is let go over a list that is no column.
C25_Witness ==
  /\ DragHolds /\ pending = <<>>
  /\ Len(ContainerData(drag.container)) = 2

\* C26: in a drop on a list other than the one the card came from, the column
\* arrays change exactly when the status of the card is assigned and exactly
\* when a remote write is issued; on a list that is no column the columns stay
\* as they are.
C26_SpliceAndStatusGoTogether ==
  [][\A c \in 1..5, k \in Indices :
       LET containerId == IF c = 5 THEN OtherContainer ELSE ColumnContainers[c]
       IN  (onTaskDrop(containerId, k) /\ drag.container # containerId) =>
             /\ (columns' # columns) <=> (tasks' # tasks)
             /\ (columns' # columns) <=> (Len(pending') = Len(pending) + 1)
             /\ (columns' = columns) => (pending' = pending)
             /\ (containerId = OtherContainer) => (columns' = columns)]_vars

\* A card is being dragged while the status write of an earlier drop of the
\* other card is in flight and that card stands alone in its new column.
C26_Witness ==
  /\ DragHolds /\ Len(pending) = 1 /\ pending[1].kind = "drop"
  /\ Dragged # pending[1].id
  /\ columns[pending[1].payload.status] = <<pending[1].id>>

\* C27: when the write of an edit-save has succeeded, the record of allTasks
\* with the written id has the status, completedSubtasks, createdAt and
\* deleted it had just before, whatever toggles and status moves took effect
\* on the task after its detail view was opened.
C27_SaveKeepsUneditedFields ==
  [][\A n \in DOMAIN pending, i \in TaskIds :
       (/\ pending[n].kind = "save" /\ pending[n].id = i
        /\ saveEditedTask_settled(n, TRUE)
        /\ tasks[i] # Null /\ tasks'[i] # Null) =>
         \A f \in KeptFields : Value(tasks[i])'[f] = Value(tasks[i])[f]]_vars

\* C28: when the write of an edit-save has succeeded, the record of allTasks
\* with the written id has the editable fields that were sent, no other
\* record has changed, the columns are sorted from allTasks and edit mode is
\* left, also when the edit was cancelled, the detail view closed or another
\* task taken into the buffer while the write was in flight.
C28_SaveSettlesForWrittenRecord ==
  [][\A n \in DOMAIN pending, i \in TaskIds :
       (/\ pending[n].kind = "save" /\ pending[n].id = i
        /\ saveEditedTask_settled(n, TRUE)
        /\ tasks[i] # Null) =>
         /\ tasks'[i] # Null
         /\ \A f \in EditableFields : Value(tasks[i])'[f] = pending[n].payload[f]
         /\ \A j \in TaskIds \ {i} : Value(tasks[j])' = Value(tasks[j])
         /\ \A st \in StatusSet : InFlatOrder(columns'[st], allTasks', tasks', st)
         /\ ~isEditMode']_vars

\* C29: toggleSubtask issues one update for the id of the selected task whose
\* payload has the one field completedSubtasks; and when that update has
\* succeeded, the record of allTasks with the written id has completedSubtasks
\* equal to the value written, also when the detail view was closed or
\* another task opened while the write was in flight.
C29_ToggleSettlesForWrittenRecord ==
  [][/\ \A k \in 0..(MaxSubtasks - 1) :
          toggleSubtask(k) =>
            /\ Len(pending') = Len(pending) + 1
            /\ SubSeq(pending', 1, Len(pending)) = pending
            /\ pending'[Len(pending')].id = selectedTask.id
            /\ DOMAIN pending'[Len(pending')].payload = {"completedSubtasks"}
     /\ \A n \in DOMAIN pending, i \in TaskIds :
          (/\ pending[n].kind = "toggle" /\ pending[n].id = i
           /\ toggleSubtask_settled(n, TRUE)
           /\ tasks[i] # Null) =>
            Value(tasks[i])'.completedSubtasks = Some(pending[n].payload.completedSubtasks)]_vars

\* C30: toggleSubtask changes no record of allTasks before its write has
\* succeeded: neither the step that issues the write nor the rejection of the
\* write changes completedSubtasks of a record, whether or not the task had a
\* completedSubtasks array when its detail view was opened.
C30_ToggleReachesListAfterSuccess ==
  [][\A i \in TaskIds :
       tasks[i] # Null =>
         /\ \A k \in 0..(MaxSubtasks - 1) :
              toggleSubtask(k) =>
                Value(tasks[i])'.completedSubtasks = Value(tasks[i]).completedSubtasks
         /\ \A n \in DOMAIN pending :
              toggleSubtask_settled(n, FALSE) =>
                Value(tasks[i])'.completedSubtasks = Value(tasks[i]).completedSubtasks]_vars

\* C31: a rejected task read leaves allTasks, the task objects and the four
\* columns as they were before loadData, and a rejected contact read leaves
\* allContacts as it was; a read that succeeds gives its collection the loaded
\* value (for the tasks: the documents not deleted, in snapshot order, sorted
\* into the columns).
C31_RejectedReadKeepsCollection ==
  [][
      /\ loadTasks_settled(FALSE) => (/\ allTasks' = allTasks
                                      /\ tasks' = tasks
                                      /\ columns' = columns)
      /\ loadContacts_settled(FALSE) => (allContacts' = allContacts)
      /\ loadTasks_settled(TRUE) => (/\ allTasks' = NotDeleted(remote)
                                     /\ \A i \in TaskIds :
                                          ~remote[i].deleted => HasId(tasks'[i]))
      /\ loadContacts_settled(TRUE) => (allContacts' = contactsPage.collection)
      /\ (LoadEnds /\ reads'.tasks = "resolved") =>
           (columns' = sortTasksIntoColumns(allTasks', tasks'))]_vars

\* The task read was rejected and the contact read succeeded: the board has
\* the contacts and no task although the collection holds a task to show.
C31_Witness ==
  /\ ~isLoading
  /\ allContacts = contactsPage.collection /\ allContacts # <<>>
  /\ allTasks = <<>>
  /\ \E i \in TaskIds : ~remote[i].deleted

\* C32: moveTaskToStatus issues its status write only for a status other than
\* the task's current one and changes nothing locally while the write is in
\* flight; when the write resolves the task takes the status written and the
\* columns are sorted again; when it rejects, the error message is set and the
\* statuses, the columns and the document stay as they were.
C32_MobileMoveAppliesAfterSuccess ==
  [][/\ \A task \in TaskIds, s \in StatusSet :
          moveTaskToStatus(task, s) =>
            /\ tasks' = tasks /\ columns' = columns /\ allTasks' = allTasks
            /\ remote' = remote /\ error' = error
            /\ Len(pending') = Len(pending) + 1
            /\ pending'[Len(pending')].id = task
            /\ pending'[Len(pending')].payload = [status |-> s]
            /\ tasks[task].status # s
     /\ \A n \in 1..MaxPending, i \in TaskIds :
          (moveTaskToStatus_settled(n, TRUE) /\ pending[n].task = i) =>
            /\ tasks'[i].status = remote'[i].status
            /\ tasks'[i].status \in StatusSet
            /\ \A j \in TaskIds \ {i} : tasks'[j] = tasks[j]
            /\ columns' = sortTasksIntoColumns(allTasks, tasks')
     /\ \A n \in 1..MaxPending :
          (moveTaskToStatus_settled(n, FALSE) /\ ~moveTaskToStatus_settled(n, TRUE)) =>
            /\ tasks' = tasks /\ columns' = columns /\ remote' = remote
            /\ error' = ErrMove]_vars

\* A mobile move is in flight: its task still has its former status, stands
\* in the column of that status, and the document is unchanged.
C32_Witness ==
  \E n \in DOMAIN pending :
    /\ pending[n].kind = "move"
    /\ tasks[pending[n].id] # Null
    /\ tasks[pending[n].id].status # pending[n].payload.status
    /\ pending[n].id \in Elems(columns[tasks[pending[n].id].status])
    /\ remote[pending[n].id].status = tasks[pending[n].id].status

\* C33: when every status write succeeds and the writes are applied in the
\* order they were issued, then with no write in flight every task on the
\* board has the status of its document (a document without a status counts
\* as 'todo', as loadTasks reads it).
C33_StatusMatchesRemoteWhenSettled ==
  (pending = <<>>) =>
    \A i \in Elems(allTasks) :
      tasks[i].status = IF remote[i].status = Undefined THEN "todo"
                        ELSE remote[i].status

\* C34: as long as no remote call has rejected, the board's error message is
\* empty, whatever is closed, cancelled, deleted or opened while a write of
\* saveEditedTask or toggleSubtask is in flight.
C34_NoErrorWithoutRejection == error = ""

\* C35: in every state of the board, isEditMode holds exactly when there is an
\* edit buffer, showTaskDetail holds exactly when a task is selected, and edit
\* mode occurs only with the detail view shown.
C35_DetailSessionFlagsAgree ==
  /\ isEditMode <=> (editTask # Null)
  /\ showTaskDetail <=> (selectedTask # Null)
  /\ isEditMode => showTaskDetail

\* The documents the add-task page has created.
CreatedDocs == {i \in TaskIds : remote[i] # Absent /\ remote[i].createdAt = "now"}

\* C36: when the insert of onSubmit resolves (either revision of the page),
\* one document is added to the collection, and title, description, dueDate,
\* assignedTo, category and subtasks of the form are empty and the priority is
\* medium; when the insert rejects, no field of the form changes, nothing is
\* created and the error message is set. The next task read of the board
\* loads every document so created with the status todo and no completed
\* subtask, and the load that ends with it shows each in the todo column,
\* once, and in no other column.
C36_SubmitCreatesTodoAndResetsForm ==
  [][/\ \A n \in 1..MaxPending :
          /\ (onSubmit_settled(n, TRUE) \/ onSubmit_older_settled(n, TRUE)) =>
               /\ Len(Docs(remote')) = Len(Docs(remote)) + 1
               /\ \A i \in TaskIds : remote[i] # Absent => remote'[i] = remote[i]
               /\ \A f \in FormFields \ {"priority"} : form'[f] = <<>>
               /\ form'.priority = "medium"
               /\ form'.success # ""
          /\ ((onSubmit_settled(n, FALSE) /\ ~onSubmit_settled(n, TRUE))
                \/ (onSubmit_older_settled(n, FALSE) /\ ~onSubmit_older_settled(n, TRUE))) =>
               /\ remote' = remote
               /\ \A f \in FormFields : form'[f] = form[f]
               /\ form'.error # ""
     /\ loadTasks_settled(TRUE) =>
          \A i \in CreatedDocs :
            /\ i \in Elems(allTasks')
            /\ tasks'[i].status = "todo"
            /\ Value(tasks[i])'.completedSubtasks \in {None, Some(<<>>)}
     /\ (LoadEnds /\ reads'.tasks = "resolved") =>
          \A i \in Elems(allTasks') :
            tasks'[i].createdAt = "now" =>
              /\ Count(columns'["todo"], i) = 1
              /\ \A s \in StatusSet \ {"todo"} : i \notin Elems(columns'[s])]_vars

\* The board has loaded two tasks created on the add-task page, one by each
\* revision of onSubmit, the one of the older revision entered with priority
\* urgent and stored without a status: both stand in the todo column.
C36_Witness ==
  /\ AtRoute("board") /\ ~isLoading /\ error = "" /\ pending = <<>>
  /\ Len(columns["todo"]) = 2
  /\ \E i, j \in CreatedDocs :
       /\ remote[i].status = Undefined /\ remote[i].priority = "urgent"
       /\ remote[j].status = "todo" /\ remote[j].title = <<"a">>
       /\ Elems(columns["todo"]) = {i, j}

\* C37: in every state of the add-task form, editSubtaskIndex is null or an
\* index of the subtasks array.
C37_EditIndexWithinSubtasks ==
  form.editSubtaskIndex = NoIndex \/ form.editSubtaskIndex < Len(form.subtasks)

\* C38: for a collection without deleted documents, when the board shows the
\* collection the dashboard has counted, each of todoTasks, inProgressTasks,
\* awaitFeedbackTasks and doneTasks is the length of the board column of that
\* status, and the four add up to totalTasks; documents without a status
\* field included.
C38_DashboardMatchesBoard ==
  (/\ DashboardLoaded /\ ~isLoading
   /\ \A i \in TaskIds : ~remote[i].deleted
   /\ allTasks = NotDeleted(remote)) =>
    /\ summary.stats.todoTasks = Len(columns["todo"])
    /\ summary.stats.inProgressTasks = Len(columns["inprogress"])
    /\ summary.stats.awaitFeedbackTasks = Len(columns["awaitfeedback"])
    /\ summary.stats.doneTasks = Len(columns["done"])
    /\ summary.stats.todoTasks + summary.stats.inProgressTasks
         + summary.stats.awaitFeedbackTasks + summary.stats.doneTasks
         = summary.stats.totalTasks

\* C39: no two contacts of the local list have the same e-mail address when
\* case is disregarded.
C39_NoTwoContactsShareEmail ==
  \A j, k \in DOMAIN contactsPage.contacts :
    j # k => toLowerCase(contactsPage.contacts[j].email)
               # toLowerCase(contactsPage.contacts[k].email)

====
